---- MODULE Spec2Model ----
(***************************************************************************)
(* Model of the wireless serial console firmware.                          *)
(*                                                                         *)
(* Command dispatcher (src/modules/cmd_parser/cmd_parser.c): received      *)
(* bytes are accumulated in a static line buffer, a terminator dispatches  *)
(* the line to execute_command, the handler's text is handed to            *)
(* ble_nus_send.  Bytes and characters are their integer codes; a C string *)
(* is the sequence of its bytes without the terminating NUL.               *)
(***************************************************************************)
EXTENDS Integers, Sequences, FiniteSets, TLC

(***************************************************************************)
(* Program constants.                                                      *)
(***************************************************************************)
CMD_MAX_LEN == 128
CMD_RESPONSE_MAX_LEN == 256
\* the slack cmd_help keeps free before it adds another table entry
HELP_RESERVE == 50
\* character codes the byte loop of cmd_parser_process compares against
NUL == 0
BS == 8
TAB == 9
LF == 10
CR == 13
SPACE == 32
PRINT_MAX == 126
DEL == 127
\* errno values (Zephyr's errno.h)
ENOENT == 2
EACCES == 13
ENOMEM == 12
ENODEV == 19
EINVAL == 22
ENOTSUP == 134

\* enum ble_init_status
BLE_INIT_STATUS_SUCCESS == 0
BLE_INIT_STATUS_STACK_FAILED == -1
BLE_INIT_STATUS_ALREADY_INITIALIZED == -4

(***************************************************************************)
(* Sequences and C arithmetic.                                             *)
(***************************************************************************)
Min(a, b) == IF a <= b THEN a ELSE b

Take(s, n) == SubSeq(s, 1, Min(n, Len(s)))

Drop(s, n) == SubSeq(s, n + 1, Len(s))

Last(s) == s[Len(s)]

IsPrefix(p, s) == Len(p) <= Len(s) /\ SubSeq(s, 1, Len(p)) = p

\* C integer division truncates toward zero
CDiv(a, b) == IF a >= 0 THEN a \div b ELSE -((-a) \div b)

\* conversion of an int to an unsigned type of the given width
ToUnsigned(v, bits) == v % (2 ^ bits)

\* printf "%u": the decimal digits of a natural number
RECURSIVE FmtU(_)
FmtU(n) == IF n < 10 THEN <<48 + n>> ELSE FmtU(n \div 10) \o <<48 + (n % 10)>>

\* printf "%d"
FmtD(n) == IF n < 0 THEN <<45>> \o FmtU(-n) ELSE FmtU(n)

\* printf "%03u": zero-padded to at least three digits
FmtU03(n) ==
    LET d == FmtU(n)
    IN  IF Len(d) >= 3 THEN d
        ELSE IF Len(d) = 2 THEN <<48>> \o d
        ELSE <<48, 48>> \o d

(***************************************************************************)
(* snprintf into the response buffer.  A writer is the C string held by    *)
(* the buffer (s), the caller's running offset (pos) and whether a call    *)
(* was made with an offset at or past the end of the buffer (ub: the size  *)
(* argument response_size - pos wraps around as a size_t and the write is  *)
(* out of bounds).  snprintf stores at most size-1 bytes and a NUL and     *)
(* returns the length of the whole text.                                   *)
(***************************************************************************)
Writer(s) == [s |-> s, pos |-> 0, ub |-> FALSE]

Snprintf(w, size, text) ==
    IF w.pos >= size
    THEN [w EXCEPT !.pos = w.pos + Len(text), !.ub = TRUE]
    ELSE [s   |-> IF w.pos <= Len(w.s)
                  THEN Take(w.s, w.pos) \o Take(text, size - w.pos - 1)
                  ELSE w.s,
          pos |-> w.pos + Len(text),
          ub  |-> w.ub]

\* a char pointer that may be NULL
NullStr == [null |-> TRUE, s |-> <<>>]

Str(s) == [null |-> FALSE, s |-> s]

(***************************************************************************)
(* Collaborators (src/modules/nrf_utils/nrf_utils.c).  What the hardware   *)
(* and the build answer is the environment env of one receive call:        *)
(*   malloc_ok   whether k_malloc finds memory                             *)
(*   uptime      k_uptime_get_32()                                         *)
(*   conn_count  ble_get_connection_count()                                *)
(*   heap        free heap bytes                                           *)
(*   has_adc     the build has the ADC node (DT_NODE_EXISTS(ADC_NODE))     *)
(*   adc1, adc2  the next two ADC reads: [ready, err, sample]              *)
(*   has_temp    the preprocessor takes the sensor branch                  *)
(*   temp        the die sensor: [ready, fetch_err, get_err, celsius]      *)
(***************************************************************************)
nrf_get_battery_voltage_mv(has_adc, adc) ==
    IF ~has_adc THEN -ENOTSUP
    ELSE IF ~adc.ready THEN -ENODEV
    ELSE IF adc.err < 0 THEN adc.err
    ELSE CDiv(adc.sample * 600 * 6, 4095)

nrf_get_battery_percentage(has_adc, adc) ==
    LET voltage_mv == nrf_get_battery_voltage_mv(has_adc, adc)
    IN  IF voltage_mv < 0 THEN voltage_mv
        ELSE IF voltage_mv <= 3000 THEN 0
        ELSE IF voltage_mv >= 4200 THEN 100
        ELSE CDiv((voltage_mv - 3000) * 100, 4200 - 3000)

\* the result and the struct the caller passed (status is never NULL here)
nrf_get_battery_status(env) ==
    LET voltage == nrf_get_battery_voltage_mv(env.has_adc, env.adc1)
    IN  IF voltage < 0
        THEN [ret |-> voltage, voltage_mv |-> 0, percentage |-> 0,
              is_present |-> FALSE, is_charging |-> FALSE]
        ELSE [ret         |-> 0,
              voltage_mv  |-> ToUnsigned(voltage, 16),
              percentage  |-> ToUnsigned(
                                nrf_get_battery_percentage(env.has_adc, env.adc2), 8),
              is_present  |-> voltage > 1000,
              is_charging |-> FALSE]

nrf_get_temperature_celsius(env) ==
    IF ~env.has_temp THEN -ENOTSUP
    ELSE IF ~env.temp.ready THEN -ENODEV
    ELSE IF env.temp.fetch_err < 0 THEN env.temp.fetch_err
    ELSE IF env.temp.get_err < 0 THEN env.temp.get_err
    ELSE env.temp.celsius

nrf_get_uptime_ms(env) == env.uptime

nrf_get_system_info(env) ==
    [ret |-> 0, board_name |-> env.board, soc_name |-> env.soc,
     uptime_ms |-> nrf_get_uptime_ms(env), free_heap_bytes |-> env.heap]

(***************************************************************************)
(* The command table.                                                      *)
(***************************************************************************)
commands ==
    << [name |-> <<104, 101, 108, 112>>,    help |-> <<83, 104, 111, 119, 32, 97, 118, 97, 105, 108, 97, 98, 108, 101, 32, 99, 111, 109, 109, 97, 110, 100, 115>>,     handler |-> "cmd_help"],
       [name |-> <<115, 116, 97, 116, 117, 115>>,  help |-> <<83, 104, 111, 119, 32, 115, 121, 115, 116, 101, 109, 32, 115, 116, 97, 116, 117, 115>>,          handler |-> "cmd_status"],
       [name |-> <<98, 97, 116, 116, 101, 114, 121>>, help |-> <<83, 104, 111, 119, 32, 98, 97, 116, 116, 101, 114, 121, 32, 115, 116, 97, 116, 117, 115>>,         handler |-> "cmd_battery"],
       [name |-> <<116, 101, 109, 112>>,    help |-> <<83, 104, 111, 119, 32, 116, 101, 109, 112, 101, 114, 97, 116, 117, 114, 101>>,            handler |-> "cmd_temp"],
       [name |-> <<105, 110, 102, 111>>,    help |-> <<83, 104, 111, 119, 32, 115, 121, 115, 116, 101, 109, 32, 105, 110, 102, 111, 114, 109, 97, 116, 105, 111, 110>>,     handler |-> "cmd_info"],
       [name |-> <<117, 112, 116, 105, 109, 101>>,  help |-> <<83, 104, 111, 119, 32, 115, 121, 115, 116, 101, 109, 32, 117, 112, 116, 105, 109, 101>>,          handler |-> "cmd_uptime"],
       [name |-> <<114, 101, 115, 101, 116>>,   help |-> <<82, 101, 115, 101, 116, 32, 116, 104, 101, 32, 115, 121, 115, 116, 101, 109>>,            handler |-> "cmd_reset"],
       [name |-> <<108, 101, 100>>,     help |-> <<67, 111, 110, 116, 114, 111, 108, 32, 76, 69, 68, 32, 40, 111, 110, 124, 111, 102, 102, 124, 116, 111, 103, 103, 108, 101, 41>>, handler |-> "cmd_led"],
       [name |-> <<101, 99, 104, 111>>,    help |-> <<69, 99, 104, 111, 32, 98, 97, 99, 107, 32, 116, 104, 101, 32, 97, 114, 103, 117, 109, 101, 110, 116, 115>>,     handler |-> "cmd_echo"] >>

NUM_COMMANDS == Len(commands)

(***************************************************************************)
(* Command handlers.  Each takes what it reads (args, the response buffer  *)
(* as the caller left it, the environment, the indicator) and gives        *)
(*   ret      the handler's return value                                   *)
(*   w        the response buffer afterwards (a writer)                    *)
(*   led      the indicator afterwards                                     *)
(*   halted   TRUE when the handler never returns (the system restarted)   *)
(***************************************************************************)
Handled(ret, w, led) == [ret |-> ret, w |-> w, led |-> led, halted |-> FALSE]

\* the loop of cmd_help from table index i on (1-based)
RECURSIVE cmd_help_loop(_, _, _)
cmd_help_loop(i, w, response_size) ==
    IF i <= NUM_COMMANDS /\ w.pos < response_size - HELP_RESERVE
    THEN cmd_help_loop(i + 1,
                       Snprintf(w, response_size,
                                <<32, 32>> \o commands[i].name \o <<32, 45, 32>>
                                      \o commands[i].help \o <<10>>),
                       response_size)
    ELSE w

cmd_help(args, response, response_size, env, led) ==
    LET w0 == Snprintf(Writer(response), response_size, <<65, 118, 97, 105, 108, 97, 98, 108, 101, 32, 99, 111, 109, 109, 97, 110, 100, 115, 58, 10>>)
        w1 == cmd_help_loop(1, w0, response_size)
        w2 == Snprintf(w1, response_size, <<10, 84, 121, 112, 101, 32, 39, 99, 111, 109, 109, 97, 110, 100, 32, 104, 101, 108, 112, 39, 32, 102, 111, 114, 32, 117, 115, 97, 103, 101, 10>>)
    IN  Handled(0, w2, led)

cmd_status(args, response, response_size, env, led) ==
    LET battery == nrf_get_battery_status(env)
        temp == nrf_get_temperature_celsius(env)
        uptime == nrf_get_uptime_ms(env)
        conn_count == env.conn_count
        w0 == Snprintf(Writer(response), response_size, <<61, 61, 61, 32, 83, 121, 115, 116, 101, 109, 32, 83, 116, 97, 116, 117, 115, 32, 61, 61, 61, 10>>)
        w1 == Snprintf(w0, response_size,
                       <<85, 112, 116, 105, 109, 101, 58, 32>> \o FmtU(uptime \div 1000) \o <<46>>
                                   \o FmtU03(uptime % 1000) \o <<32, 115, 101, 99, 111, 110, 100, 115, 10>>)
        w2 == Snprintf(w1, response_size,
                       <<66, 76, 69, 32, 99, 111, 110, 110, 101, 99, 116, 105, 111, 110, 115, 58, 32>> \o FmtU(conn_count) \o <<10>>)
        w3 == IF battery.ret = 0
              THEN Snprintf(w2, response_size,
                            <<66, 97, 116, 116, 101, 114, 121, 58, 32>> \o FmtU(battery.percentage) \o <<37, 32, 40>>
                                         \o FmtU(battery.voltage_mv) \o <<32, 109, 86, 41, 10>>)
              ELSE w2
        w4 == IF temp >= 0
              THEN Snprintf(w3, response_size,
                            <<84, 101, 109, 112, 101, 114, 97, 116, 117, 114, 101, 58, 32>> \o FmtD(temp) \o <<194, 176, 67, 10>>)
              ELSE w3
    IN  Handled(0, w4, led)

cmd_battery(args, response, response_size, env, led) ==
    LET battery == nrf_get_battery_status(env)
        ret == battery.ret
    IN  IF ret < 0
        THEN Handled(ret,
                     Snprintf(Writer(response), response_size,
                              <<66, 97, 116, 116, 101, 114, 121, 32, 115, 116, 97, 116, 117, 115, 32, 117, 110, 97, 118, 97, 105, 108, 97, 98, 108, 101, 32, 40, 101, 114, 114, 32>> \o FmtD(ret) \o <<41, 10>>),
                     led)
        ELSE Handled(0,
                     Snprintf(Writer(response), response_size,
                              <<66, 97, 116, 116, 101, 114, 121, 32, 83, 116, 97, 116, 117, 115, 58, 10, 32, 32, 86, 111, 108, 116, 97, 103, 101, 58, 32>> \o FmtU(battery.voltage_mv)
                              \o <<32, 109, 86, 10, 32, 32, 80, 101, 114, 99, 101, 110, 116, 97, 103, 101, 58, 32>> \o FmtU(battery.percentage)
                              \o <<37, 10, 32, 32, 80, 114, 101, 115, 101, 110, 116, 58, 32>>
                              \o (IF battery.is_present THEN <<89, 101, 115>> ELSE <<78, 111>>)
                              \o <<10, 32, 32, 67, 104, 97, 114, 103, 105, 110, 103, 58, 32>>
                              \o (IF battery.is_charging THEN <<89, 101, 115>> ELSE <<78, 111>>)
                              \o <<10>>),
                     led)

cmd_temp(args, response, response_size, env, led) ==
    LET temp == nrf_get_temperature_celsius(env)
    IN  IF temp < -100
        THEN Handled(temp,
                     Snprintf(Writer(response), response_size,
                              <<84, 101, 109, 112, 101, 114, 97, 116, 117, 114, 101, 32, 117, 110, 97, 118, 97, 105, 108, 97, 98, 108, 101, 32, 40, 101, 114, 114, 32>> \o FmtD(temp) \o <<41, 10>>),
                     led)
        ELSE Handled(0,
                     Snprintf(Writer(response), response_size,
                              <<84, 101, 109, 112, 101, 114, 97, 116, 117, 114, 101, 58, 32>> \o FmtD(temp) \o <<194, 176, 67, 10>>),
                     led)

cmd_info(args, response, response_size, env, led) ==
    LET info == nrf_get_system_info(env)
        ret == info.ret
    IN  IF ret < 0
        THEN Handled(ret,
                     Snprintf(Writer(response), response_size,
                              <<83, 121, 115, 116, 101, 109, 32, 105, 110, 102, 111, 32, 117, 110, 97, 118, 97, 105, 108, 97, 98, 108, 101, 32, 40, 101, 114, 114, 32>> \o FmtD(ret) \o <<41, 10>>),
                     led)
        ELSE Handled(0,
                     Snprintf(Writer(response), response_size,
                              <<83, 121, 115, 116, 101, 109, 32, 73, 110, 102, 111, 114, 109, 97, 116, 105, 111, 110, 58, 10, 32, 32, 66, 111, 97, 114, 100, 58, 32>> \o info.board_name
                              \o <<10, 32, 32, 83, 111, 67, 58, 32>> \o info.soc_name
                              \o <<10, 32, 32, 85, 112, 116, 105, 109, 101, 58, 32>> \o FmtU(info.uptime_ms)
                              \o <<32, 109, 115, 10, 32, 32, 70, 114, 101, 101, 32, 72, 101, 97, 112, 58, 32>> \o FmtU(info.free_heap_bytes)
                              \o <<32, 98, 121, 116, 101, 115, 10>>),
                     led)

cmd_uptime(args, response, response_size, env, led) ==
    LET uptime == nrf_get_uptime_ms(env)
        seconds == uptime \div 1000
        minutes == seconds \div 60
        hours == minutes \div 60
    IN  Handled(0,
                Snprintf(Writer(response), response_size,
                         <<85, 112, 116, 105, 109, 101, 58, 32>> \o FmtU(hours) \o <<32, 104, 111, 117, 114, 115, 44, 32>>
                         \o FmtU(minutes % 60) \o <<32, 109, 105, 110, 117, 116, 101, 115, 44, 32>>
                         \o FmtU(seconds % 60) \o <<32, 115, 101, 99, 111, 110, 100, 115, 10>>),
                led)

\* nrf_system_reset ends in sys_reboot, which does not return: the handler
\* has filled the response buffer and nothing after the call runs
cmd_reset(args, response, response_size, env, led) ==
    [ret    |-> 0,
     w      |-> Snprintf(Writer(response), response_size,
                         <<82, 101, 115, 101, 116, 116, 105, 110, 103, 32, 115, 121, 115, 116, 101, 109, 32, 105, 110, 32, 50, 32, 115, 101, 99, 111, 110, 100, 115, 46, 46, 46, 10>>),
     led    |-> led,
     halted |-> TRUE]

\* strncmp(a, lit, n) == 0 for a literal of exactly n bytes
StrncmpEq(a, lit, n) == Take(a, n) = lit

\* mutant: toggle leaves the indicator as it is
cmd_ledToggleKeeps(args, response, response_size, env, led) ==
    IF args.null \/ Len(args.s) = 0
    THEN Handled(-EINVAL,
                 Snprintf(Writer(response), response_size, <<85, 115, 97, 103, 101, 58, 32, 108, 101, 100, 32, 60, 111, 110, 124, 111, 102, 102, 124, 116, 111, 103, 103, 108, 101, 62, 10>>),
                 led)
    ELSE IF StrncmpEq(args.s, <<111, 110>>, 2)
    THEN Handled(0, Snprintf(Writer(response), response_size, <<76, 69, 68, 32, 116, 117, 114, 110, 101, 100, 32, 111, 110, 10>>), TRUE)
    ELSE IF StrncmpEq(args.s, <<111, 102, 102>>, 3)
    THEN Handled(0, Snprintf(Writer(response), response_size, <<76, 69, 68, 32, 116, 117, 114, 110, 101, 100, 32, 111, 102, 102, 10>>), FALSE)
    ELSE IF StrncmpEq(args.s, <<116, 111, 103, 103, 108, 101>>, 6)
    THEN Handled(0, Snprintf(Writer(response), response_size, <<76, 69, 68, 32, 116, 111, 103, 103, 108, 101, 100, 10>>), led)
    ELSE Handled(-EINVAL,
                 Snprintf(Writer(response), response_size,
                          <<73, 110, 118, 97, 108, 105, 100, 32, 76, 69, 68, 32, 99, 111, 109, 109, 97, 110, 100, 46, 32, 85, 115, 101, 58, 32, 111, 110, 44, 32, 111, 102, 102, 44, 32, 111, 114, 32, 116, 111, 103, 103, 108, 101, 10>>),
                 led)

cmd_led(args, response, response_size, env, led) ==
    IF args.null \/ Len(args.s) = 0
    THEN Handled(-EINVAL,
                 Snprintf(Writer(response), response_size, <<85, 115, 97, 103, 101, 58, 32, 108, 101, 100, 32, 60, 111, 110, 124, 111, 102, 102, 124, 116, 111, 103, 103, 108, 101, 62, 10>>),
                 led)
    ELSE IF StrncmpEq(args.s, <<111, 110>>, 2)
    THEN Handled(0, Snprintf(Writer(response), response_size, <<76, 69, 68, 32, 116, 117, 114, 110, 101, 100, 32, 111, 110, 10>>), TRUE)
    ELSE IF StrncmpEq(args.s, <<111, 102, 102>>, 3)
    THEN Handled(0, Snprintf(Writer(response), response_size, <<76, 69, 68, 32, 116, 117, 114, 110, 101, 100, 32, 111, 102, 102, 10>>), FALSE)
    ELSE IF StrncmpEq(args.s, <<116, 111, 103, 103, 108, 101>>, 6)
    THEN Handled(0, Snprintf(Writer(response), response_size, <<76, 69, 68, 32, 116, 111, 103, 103, 108, 101, 100, 10>>), ~led)
    ELSE Handled(-EINVAL,
                 Snprintf(Writer(response), response_size,
                          <<73, 110, 118, 97, 108, 105, 100, 32, 76, 69, 68, 32, 99, 111, 109, 109, 97, 110, 100, 46, 32, 85, 115, 101, 58, 32, 111, 110, 44, 32, 111, 102, 102, 44, 32, 111, 114, 32, 116, 111, 103, 103, 108, 101, 10>>),
                 led)

\* mutant: the tail is written into half of the response buffer
cmd_echoHalfBuffer(args, response, response_size, env, led) ==
    IF args.null \/ Len(args.s) = 0
    THEN Handled(0, Snprintf(Writer(response), response_size, <<69, 99, 104, 111, 58, 32, 40, 110, 111, 32, 97, 114, 103, 117, 109, 101, 110, 116, 115, 41, 10>>), led)
    ELSE Handled(0,
                 Snprintf(Writer(response), response_size \div 2,
                          <<69, 99, 104, 111, 58, 32>> \o args.s \o <<10>>),
                 led)

cmd_echo(args, response, response_size, env, led) ==
    IF args.null \/ Len(args.s) = 0
    THEN Handled(0, Snprintf(Writer(response), response_size, <<69, 99, 104, 111, 58, 32, 40, 110, 111, 32, 97, 114, 103, 117, 109, 101, 110, 116, 115, 41, 10>>), led)
    ELSE Handled(0,
                 Snprintf(Writer(response), response_size, <<69, 99, 104, 111, 58, 32>> \o args.s \o <<10>>),
                 led)

\* the call commands[i].handler(args, response, response_size)
CallHandler(handler, args, response, response_size, env, led) ==
    CASE handler = "cmd_help"    -> cmd_help(args, response, response_size, env, led)
      [] handler = "cmd_status"  -> cmd_status(args, response, response_size, env, led)
      [] handler = "cmd_battery" -> cmd_battery(args, response, response_size, env, led)
      [] handler = "cmd_temp"    -> cmd_temp(args, response, response_size, env, led)
      [] handler = "cmd_info"    -> cmd_info(args, response, response_size, env, led)
      [] handler = "cmd_uptime"  -> cmd_uptime(args, response, response_size, env, led)
      [] handler = "cmd_reset"   -> cmd_reset(args, response, response_size, env, led)
      [] handler = "cmd_led"     -> cmd_led(args, response, response_size, env, led)
      [] handler = "cmd_echo"    -> cmd_echo(args, response, response_size, env, led)

(***************************************************************************)
(* execute_command.                                                        *)
(***************************************************************************)
\* the number of leading bytes of s that are (skip) or are not (~skip) in delims
Span(s, delims, skip) ==
    IF \A i \in 1..Len(s) : (s[i] \in delims) = skip
    THEN Len(s)
    ELSE (CHOOSE i \in 1..Len(s) : /\ (s[i] \in delims) # skip
                                   /\ \A j \in 1..(i - 1) : (s[j] \in delims) = skip) - 1

\* the token of n bytes at the head of t and what strtok saves behind it:
\* the delimiter that ends the token is overwritten by a NUL and the scan
\* resumes right after it; a token that runs to the end leaves nothing
TokenAt(t, n) ==
    IF t = <<>>
    THEN [token |-> NullStr, saved |-> <<>>]
    ELSE [token |-> Str(Take(t, n)),
          saved |-> IF n = Len(t) THEN <<>> ELSE Drop(t, n + 1)]

SkipDelims(s, delims) == Drop(s, Span(s, delims, TRUE))

TokenFrom(t, delims) == TokenAt(t, Span(t, delims, FALSE))

\* strtok on the text s that starts at the scan position: the token (NULL
\* when only delimiters are left) and the text at the saved position
strtok(s, delims) == TokenFrom(SkipDelims(s, delims), delims)

ToLower(c) == IF c \in 65..90 THEN c + 32 ELSE c

\* mutant: the names are compared without regard to case
RECURSIVE FindCommandNoCase(_, _)
FindCommandNoCase(cmd_name, i) ==
    IF i > NUM_COMMANDS THEN 0
    ELSE IF [k \in DOMAIN cmd_name |-> ToLower(cmd_name[k])] = commands[i].name THEN i
    ELSE FindCommandNoCase(cmd_name, i + 1)

\* index of the first table entry whose name is cmd_name, 0 when none is
RECURSIVE FindCommand(_, _)
FindCommand(cmd_name, i) ==
    IF i > NUM_COMMANDS THEN 0
    ELSE IF cmd_name = commands[i].name THEN i
    ELSE FindCommand(cmd_name, i + 1)

\* The result of execute_command(cmd_line, response, response_size):
\*   alloc     whether the copy of the line was allocated
\*   cmd_name, args   the pointers strtok gave (NULL when not reached)
\*   ret, w, led, halted   as for a handler; w is the buffer as left behind
\*   wrote     whether the response buffer was written at all
Executed(alloc, cmd_name, args, h, wrote) ==
    [alloc |-> alloc, cmd_name |-> cmd_name, args |-> args, ret |-> h.ret,
     w |-> h.w, led |-> h.led, halted |-> h.halted, wrote |-> wrote]

\* the part of execute_command after the two strtok calls; i is the index of
\* the table entry the loop stops at, 0 when it runs to the end
FindAndExecute(cmd_name, args, i, response, response_size, env, led) ==
    IF cmd_name.null
    THEN Executed(TRUE, cmd_name, args, Handled(0, Writer(response), led), FALSE)
    ELSE IF i # 0
    THEN Executed(TRUE, cmd_name, args,
                  CallHandler(commands[i].handler, args, response, response_size, env, led),
                  TRUE)
    ELSE Executed(TRUE, cmd_name, args,
                  Handled(-ENOENT,
                          Snprintf(Writer(response), response_size,
                                   <<85, 110, 107, 110, 111, 119, 110, 32, 99, 111, 109, 109, 97, 110, 100, 58, 32>> \o cmd_name.s
                                   \o <<10, 84, 121, 112, 101, 32, 39, 104, 101, 108, 112, 39, 32, 102, 111, 114, 32, 97, 118, 97, 105, 108, 97, 98, 108, 101, 32, 99, 111, 109, 109, 97, 110, 100, 115, 10>>),
                          led),
                  TRUE)

ParseAndExecute(first, response, response_size, env, led) ==
    FindAndExecute(first.token, strtok(first.saved, {}).token,
                   FindCommand(first.token.s, 1), response, response_size, env, led)

execute_command(cmd_line, response, response_size, env, led) ==
    IF ~env.malloc_ok
    THEN Executed(FALSE, NullStr, NullStr,
                  Handled(-ENOMEM,
                          Snprintf(Writer(response), response_size, <<79, 117, 116, 32, 111, 102, 32, 109, 101, 109, 111, 114, 121, 10>>),
                          led),
                  TRUE)
    ELSE ParseAndExecute(strtok(cmd_line, {SPACE, TAB}), response, response_size, env, led)

(***************************************************************************)
(* cmd_parser_process.  The state the byte loop works on:                  *)
(*   buf, pos   cmd_buffer and cmd_buffer_pos (static)                     *)
(*   response   the local response array, as a C string; at entry it is    *)
(*              uninitialised stack memory                                 *)
(*   led        the indicator                                              *)
(*   halted     the system restarted during the call                       *)
(*   executed   one record per call of execute_command, in order: the line, *)
(*              the index the NUL was stored at, what execute_command gave, *)
(*              whether the response was sent and as which payload         *)
(*   sent       the payloads handed to ble_nus_send, in order              *)
(*   n          bytes of data consumed                                     *)
(***************************************************************************)
\* the C string stored in an array: the bytes before the first NUL
CStr(buf) ==
    LET len == IF \A i \in DOMAIN buf : buf[i] # NUL
               THEN CMD_MAX_LEN
               ELSE CHOOSE i \in DOMAIN buf : /\ buf[i] = NUL
                                              /\ \A j \in 0..(i - 1) : buf[j] # NUL
    IN  [i \in 1..len |-> buf[i - 1]]

IsPrintable(c) == c >= SPACE /\ c <= PRINT_MAX

\* mutant: the bound check is off by one
HasRoomOffByOne(pos) == pos < CMD_MAX_LEN

\* room for one more byte in the line buffer
HasRoom(pos) == pos < CMD_MAX_LEN - 1

\* mutant: the cursor is left where it is after a dispatch
AfterExecuteKeepsCursor(st, line, r, send) ==
    [st EXCEPT
       !.response = r.w.s,
       !.led = r.led,
       !.halted = r.halted,
       !.executed = Append(@, [line |-> line, nul_index |-> st.pos,
                               alloc |-> r.alloc, cmd_name |-> r.cmd_name,
                               args |-> r.args, ret |-> r.ret,
                               wrote |-> r.wrote, response |-> r.w.s,
                               ub |-> r.w.ub, halted |-> r.halted,
                               sent |-> send, sent_at |-> Len(st.sent) + 1]),
       !.sent = IF send THEN Append(@, r.w.s) ELSE @]

\* what follows execute_command in the loop body: r is its result, send
\* whether strlen(response) > 0 is reached and holds
AfterExecute(st, line, r, send) ==
    [st EXCEPT
       !.pos = 0,
       !.response = r.w.s,
       !.led = r.led,
       !.halted = r.halted,
       !.executed = Append(@, [line |-> line, nul_index |-> st.pos,
                               alloc |-> r.alloc, cmd_name |-> r.cmd_name,
                               args |-> r.args, ret |-> r.ret,
                               wrote |-> r.wrote, response |-> r.w.s,
                               ub |-> r.w.ub, halted |-> r.halted,
                               sent |-> send, sent_at |-> Len(st.sent) + 1]),
       !.sent = IF send THEN Append(@, r.w.s) ELSE @]

Respond(st, line, r) == AfterExecute(st, line, r, ~r.halted /\ Len(r.w.s) > 0)

\* the record of the dispatch st ends with, with what the call met: the
\* environment and the indicator before and after
Met(st, env, led_before) ==
    [st EXCEPT !.executed[Len(st.executed)] =
                   @ @@ [env |-> env, led_before |-> led_before, led_after |-> st.led]]

Execute(st, line, env) ==
    Met(Respond(st, line,
                execute_command(line, st.response, CMD_RESPONSE_MAX_LEN, env, st.led)),
        env, st.led)

\* the line in the buffer once the NUL is stored
Terminate(st, env) == Execute(st, CStr(st.buf), env)

\* the branch of the loop body for '\n' and '\r'
EndOfCommand(st, env) ==
    IF st.pos > 0
    THEN Terminate([st EXCEPT !.buf = [@ EXCEPT ![st.pos] = NUL]], env)
    ELSE st

\* mutant: every byte that is no terminator and no backspace is stored
ProcessByteStoresAll(st, c, env) ==
    IF c = LF \/ c = CR
    THEN EndOfCommand(st, env)
    ELSE IF c = BS \/ c = DEL
    THEN IF st.pos > 0 THEN [st EXCEPT !.pos = st.pos - 1] ELSE st
    ELSE IF HasRoom(st.pos)
         THEN [st EXCEPT !.buf = [@ EXCEPT ![st.pos] = c], !.pos = st.pos + 1]
         ELSE st

\* mutant: DEL is not taken as a backspace
ProcessByteNoDel(st, c, env) ==
    IF c = LF \/ c = CR
    THEN EndOfCommand(st, env)
    ELSE IF IsPrintable(c)
    THEN IF HasRoom(st.pos)
         THEN [st EXCEPT !.buf = [@ EXCEPT ![st.pos] = c], !.pos = st.pos + 1]
         ELSE st
    ELSE IF c = BS
    THEN IF st.pos > 0 THEN [st EXCEPT !.pos = st.pos - 1] ELSE st
    ELSE st

\* one iteration of the loop, for the byte c
ProcessByte(st, c, env) ==
    IF c = LF \/ c = CR
    THEN EndOfCommand(st, env)
    ELSE IF IsPrintable(c)
    THEN IF HasRoom(st.pos)
         THEN [st EXCEPT !.buf = [@ EXCEPT ![st.pos] = c], !.pos = st.pos + 1]
         ELSE st
    ELSE IF c = BS \/ c = DEL
    THEN IF st.pos > 0 THEN [st EXCEPT !.pos = st.pos - 1] ELSE st
    ELSE st

\* the loop over data[lo..hi] (1-based), the bytes taken strictly in order:
\* first data[lo..mid], then data[mid+1..hi] on the state that leaves.  It ends
\* with the data or with the restart of the system.
RECURSIVE ProcessLoop(_, _, _, _, _)
ProcessLoop(st, data, lo, hi, env) ==
    IF lo > hi \/ st.halted
    THEN st
    ELSE IF lo = hi
    THEN [ProcessByte(st, data[lo], env) EXCEPT !.n = lo]
    ELSE LET mid == (lo + hi) \div 2
         IN  ProcessLoop(ProcessLoop(st, data, lo, mid, env), data, mid + 1, hi, env)

(***************************************************************************)
(* Bounds of the model and the inputs it draws.                            *)
(***************************************************************************)
\* every byte sequence over Alphabet of at most MaxLen bytes is a stream
MaxLen == 4
\* the stream arrives in one receive call, or in calls of 1..MaxChunk bytes
MaxChunk == 3
\* the long streams feed up to CMD_MAX_LEN + FillOver printable bytes
FillOver == 10

Alphabet == {122, SPACE, LF, CR, BS, 1}

RECURSIVE SeqsUpTo(_, _)
SeqsUpTo(A, n) ==
    IF n = 0 THEN {<<>>}
    ELSE LET shorter == SeqsUpTo(A, n - 1)
         IN  shorter \cup {Append(s, a) : s \in {t \in shorter : Len(t) = n - 1}, a \in A}

ShortStreams == SeqsUpTo(Alphabet, MaxLen) \ {<<>>}

\* console sessions: lines of the command table, edited and mistyped lines
Sessions ==
    { <<104, 101, 107, 112, 8, 8, 108, 112, 10>>, <<8, 104, 101, 107, 112, 8, 127, 108, 112, 10>>,
      <<101, 99, 104, 111, 32, 32, 32, 97, 32, 32, 98, 13, 10>>,
      <<122, 122, 13, 10, 101, 99, 104, 111, 32, 104, 105, 10>>,
      <<72, 101, 108, 112, 10, 32, 104, 101, 108, 112, 13>>,
      <<108, 101, 100, 32, 111, 110, 10, 108, 101, 100, 32, 111, 102, 102, 10, 108, 101, 100, 32, 116, 111, 103, 103, 108, 101, 10>>,
      <<108, 101, 100, 10, 108, 101, 100, 32, 111, 110, 108, 121, 10>>,
      <<108, 101, 100, 9, 111, 110, 10>>,
      <<101, 99, 104, 111, 10, 101, 99, 104, 111, 32, 10, 101, 99, 104, 111, 32, 32, 10>>,
      <<115, 116, 97, 116, 117, 115, 10>>,
      <<98, 97, 116, 116, 101, 114, 121, 10>>,
      <<116, 101, 109, 112, 10>>,
      <<105, 110, 102, 111, 10>>,
      <<117, 112, 116, 105, 109, 101, 10>>,
      <<114, 101, 115, 101, 116, 10, 104, 101, 108, 112, 10>>,
      <<104, 101, 108, 112, 10, 32, 10>>,
      <<32, 9, 10>>,
      <<97, 98, 127, 127, 99, 100, 128, 255, 10>> }

\* n printable bytes, no two neighbours equal: "echo " and letters (kind 1),
\* letters only (kind 2)
Fill(kind, n) ==
    LET letters == [i \in 1..n |-> 97 + (i % 26)]
    IN  IF kind = 1 THEN Take(<<101, 99, 104, 111, 32>> \o letters, n) ELSE letters

LongTails ==
    { <<10>>, <<10, 122, 122, 10>>, <<8, 10>>, <<8, 35, 10>>, <<8, 8, 8, 49, 50, 51, 13, 10>>, <<1, 13>> }

LongStreams ==
    { Fill(kind, n) \o t :
        kind \in {1, 2},
        n \in {CMD_MAX_LEN - 1, CMD_MAX_LEN, CMD_MAX_LEN + FillOver},
        t \in LongTails }

Streams == ShortStreams \cup Sessions \cup LongStreams

\* environments of a receive call
AdcOk(sample) == [ready |-> TRUE, err |-> 0, sample |-> sample]

TempOk(celsius) == [ready |-> TRUE, fetch_err |-> 0, get_err |-> 0, celsius |-> celsius]

NominalEnv ==
    [malloc_ok |-> TRUE, uptime |-> 3723004, conn_count |-> 1, heap |-> 4096,
     board |-> <<110, 114, 102, 53, 50, 56, 52, 48, 100, 107>>, soc |-> <<110, 114, 102, 53, 50, 56, 52, 48>>,
     has_adc |-> TRUE, adc1 |-> AdcOk(4095), adc2 |-> AdcOk(4095),
     has_temp |-> TRUE, temp |-> TempOk(25)]

Envs ==
    { NominalEnv,
      [NominalEnv EXCEPT !.malloc_ok = FALSE],
      [NominalEnv EXCEPT !.has_temp = FALSE, !.has_adc = FALSE],
      [NominalEnv EXCEPT !.temp = TempOk(-5), !.adc2 = [ready |-> TRUE, err |-> -5, sample |-> 0],
                         !.uptime = 2147483647],
      [NominalEnv EXCEPT !.temp = [ready |-> FALSE, fetch_err |-> 0, get_err |-> 0, celsius |-> 0],
                         !.adc1 = AdcOk(3000), !.adc2 = AdcOk(4000), !.uptime = 0,
                         !.conn_count = 0],
      [NominalEnv EXCEPT !.temp = [ready |-> TRUE, fetch_err |-> -5, get_err |-> 0, celsius |-> 0],
                         !.adc1 = [ready |-> FALSE, err |-> 0, sample |-> 0]] }

\* what the stack may hold where the response array is placed: a NUL first
\* (an empty string) or other bytes
StackContents == { <<>>, <<127, 69, 76, 70>> }

HasTerminator(data) == \E i \in DOMAIN data : data[i] \in {LF, CR}

(***************************************************************************)
(* State.                                                                  *)
(***************************************************************************)
VARIABLES
    stream,          \* the bytes the peer writes to the console, in order
    fed,             \* how many of them have been received
    cmd_buffer,      \* static char cmd_buffer[CMD_MAX_LEN]
    cmd_buffer_pos,  \* static size_t cmd_buffer_pos
    led,             \* the indicator
    restarted,       \* sys_reboot was called: this run of the firmware is over
    executed,        \* the calls of execute_command so far
    sent,            \* the payloads handed to ble_nus_send so far
    split_line,      \* a receive call ended inside a line
    split_crlf       \* a receive call ended between '\r' and '\n'

cmdVars == <<stream, fed, cmd_buffer, cmd_buffer_pos, led, restarted, executed, sent,
             split_line, split_crlf>>

VARIABLES
    ble_initialized,      \* static bool ble_initialized
    current_state,        \* static enum ble_connection_state current_state
    current_connections,  \* static struct bt_conn *current_connections[]
    connection_count,     \* static uint8_t connection_count
    stored_config,        \* static struct ble_init_config stored_config
    event_callbacks,      \* static const struct ble_event_callbacks *event_callbacks
    bt_ready_pending,     \* the stack owes the bring-up callback
    adv_on,               \* the radio is advertising
    links,                \* the peers the stack holds a link to
    last,                 \* the last API call or stack event, and what it did
    app_pc                \* where the application thread is inside an API call

bleVars == <<ble_initialized, current_state, current_connections, connection_count,
             stored_config, event_callbacks, bt_ready_pending, adv_on, links, last,
             app_pc>>

vars == <<cmdVars, bleVars>>

\* the number of connection slots the build configures
CONFIG_BT_MAX_CONN == 2


EmptyBuffer == [i \in 0..(CMD_MAX_LEN - 1) |-> NUL]

(***************************************************************************)
(* Connection manager (src/modules/ble_common/ble_init.c).  The handlers   *)
(* are functions of a record b: the module's statics,                      *)
(*   ble_initialized, current_state, current_connections, connection_count,*)
(*   stored_config, event_callbacks                                        *)
(* the radio stack as far as the module drives it,                         *)
(*   bt_ready_pending   bt_enable accepted the bring-up callback and has   *)
(*                      not called it yet                                  *)
(*   adv_on             an advertising start succeeded and advertising was *)
(*                      neither stopped nor ended by a connection since    *)
(*   links              the peers the stack holds a link to                *)
(* and what the handler did, in order:                                     *)
(*   path      the values assigned to current_state                        *)
(*   called    the stack primitives called, each with its result           *)
(*   invoked   the application callbacks invoked, each with its arguments  *)
(*   ret       the value returned                                          *)
(* A connection handle is a number of Peers, NULL is ConnNull.  A callback *)
(* set is NULL or the set of its slots that are not NULL.                  *)
(***************************************************************************)
BLE_DISCONNECTED == "BLE_DISCONNECTED"

BLE_CONNECTED == "BLE_CONNECTED"

BLE_ADVERTISING == "BLE_ADVERTISING"

ConnNull == 0

Slots == 0..(CONFIG_BT_MAX_CONN - 1)

NoConnections == [i \in Slots |-> ConnNull]

NullConfig == [null |-> TRUE, enable_nus |-> FALSE]

Config(enable_nus) == [null |-> FALSE, enable_nus |-> enable_nus]

NullCallbacks == [null |-> TRUE, slots |-> {}]

Callbacks(slots) == [null |-> FALSE, slots |-> slots]

\* current_state = state
Assign(b, state) == [b EXCEPT !.current_state = state, !.path = Append(@, state)]

\* if (event_callbacks && event_callbacks->slot) event_callbacks->slot(args)
Invoke(b, slot, args) ==
    IF ~b.event_callbacks.null /\ slot \in b.event_callbacks.slots
    THEN [b EXCEPT !.invoked = Append(@, <<slot>> \o args)]
    ELSE b

\* a call of a stack primitive that gives err
Call(b, primitive, err) ==
    [b EXCEPT !.called = Append(@, <<primitive, err>>), !.ret = err]

bt_le_adv_start(b, err) ==
    [Call(b, "bt_le_adv_start", err) EXCEPT !.adv_on = IF err = 0 THEN TRUE ELSE @]

bt_le_adv_stop(b, err) ==
    [Call(b, "bt_le_adv_stop", err) EXCEPT !.adv_on = IF err = 0 THEN FALSE ELSE @]

bt_enable(b, err) ==
    [Call(b, "bt_enable", err) EXCEPT !.bt_ready_pending = IF err = 0 THEN TRUE ELSE @]

\* the part of ble_advertising_start after bt_le_adv_start
AdvertisingStarted(b) ==
    IF b.ret # 0 THEN b
    ELSE IF b.connection_count = 0
    THEN [Assign(b, BLE_ADVERTISING) EXCEPT !.ret = 0]
    ELSE b

ble_advertising_start(b, err) ==
    IF ~b.ble_initialized THEN [b EXCEPT !.ret = -EACCES]
    ELSE AdvertisingStarted(bt_le_adv_start(b, err))

\* mutant: the state is set whatever the connection count
AdvertisingStoppedAlways(b) ==
    IF b.ret # 0 THEN b
    ELSE [Assign(b, BLE_DISCONNECTED) EXCEPT !.ret = 0]

\* the part of ble_advertising_stop after bt_le_adv_stop
AdvertisingStopped(b) ==
    IF b.ret # 0 THEN b
    ELSE IF b.connection_count = 0
    THEN [Assign(b, BLE_DISCONNECTED) EXCEPT !.ret = 0]
    ELSE b

ble_advertising_stop(b, err) ==
    IF ~b.ble_initialized THEN [b EXCEPT !.ret = -EACCES]
    ELSE AdvertisingStopped(bt_le_adv_stop(b, err))

\* the first slot that holds conn, -1 if none does
FirstSlot(connections, conn) ==
    IF \A i \in Slots : connections[i] # conn THEN -1
    ELSE CHOOSE i \in Slots :
             /\ connections[i] = conn
             /\ \A j \in Slots : j < i => connections[j] # conn

\* the loop of connected_callback that stores the reference
StoreConnection(b, conn, i) ==
    IF i = -1 THEN b
    ELSE [b EXCEPT !.current_connections[i] = conn,
                   !.connection_count = (@ + 1) % 256]

connected_callback(b, conn, err) ==
    IF err # 0 THEN b
    ELSE Invoke(Assign(StoreConnection(b, conn, FirstSlot(b.current_connections, ConnNull)),
                       BLE_CONNECTED),
                "connected", <<conn>>)

\* the loop of disconnected_callback that removes the reference
RemoveConnection(b, i) ==
    IF i = -1 THEN b
    ELSE [b EXCEPT !.current_connections[i] = ConnNull,
                   !.connection_count = (@ - 1) % 256]

\* mutant: advertising is restarted after every disconnect
RearmAlways(b, adv_err) ==
    IF b.connection_count = 0
    THEN ble_advertising_start(Assign(b, BLE_DISCONNECTED), adv_err)
    ELSE ble_advertising_start(b, adv_err)

\* the state update of disconnected_callback
Rearm(b, adv_err) ==
    IF b.connection_count = 0
    THEN ble_advertising_start(Assign(b, BLE_DISCONNECTED), adv_err)
    ELSE b

disconnected_callback(b, conn, reason, adv_err) ==
    Invoke(Rearm(RemoveConnection(b, FirstSlot(b.current_connections, conn)), adv_err),
           "disconnected", <<conn, reason>>)

\* ble_init from the call of bt_enable on
Enabled(b) ==
    IF b.ret # 0
    THEN [b EXCEPT !.ret = BLE_INIT_STATUS_STACK_FAILED]
    ELSE [Assign([b EXCEPT !.ble_initialized = TRUE], BLE_ADVERTISING)
             EXCEPT !.ret = BLE_INIT_STATUS_SUCCESS]

\* ble_init from the storing of the configuration to the call of bt_enable
Prepared(b, config, callbacks) ==
    [b EXCEPT !.stored_config = config,
              !.event_callbacks = callbacks,
              !.current_connections = NoConnections,
              !.connection_count = 0]

\* mutant: a second call initialises again
ble_initAgain(b, config, callbacks, err) ==
    IF config.null THEN [b EXCEPT !.ret = BLE_INIT_STATUS_STACK_FAILED]
    ELSE Enabled(bt_enable(Prepared(b, config, callbacks), err))

ble_init(b, config, callbacks, err) ==
    IF b.ble_initialized THEN [b EXCEPT !.ret = BLE_INIT_STATUS_ALREADY_INITIALIZED]
    ELSE IF config.null THEN [b EXCEPT !.ret = BLE_INIT_STATUS_STACK_FAILED]
    ELSE Enabled(bt_enable(Prepared(b, config, callbacks), err))

\* bt_ready_callback from the start of advertising on
ReadyAdvertise(b) == IF b.ret # 0 THEN b ELSE Invoke(b, "ready", <<>>)

\* bt_ready_callback from the initialisation of the console service on
ReadyService(b, adv_err) ==
    IF b.ret # 0 THEN b ELSE ReadyAdvertise(ble_advertising_start(b, adv_err))

bt_ready_callback(b, err, nus_err, adv_err) ==
    IF err # 0 THEN b
    ELSE IF b.stored_config.enable_nus
    THEN ReadyService(Call(b, "bt_nus_init", nus_err), adv_err)
    ELSE ReadyService([b EXCEPT !.ret = 0], adv_err)

\* bt_nus_send(conn, data, len): the payload goes to the notify primitive as
\* it is
bt_nus_send(b, conn, data, err) ==
    [b EXCEPT !.called = Append(@, <<"bt_nus_send", err, conn, data>>), !.ret = err]

ble_nus_send(b, conn, data, err) ==
    IF ~b.ble_initialized THEN [b EXCEPT !.ret = -EACCES]
    ELSE IF ~b.stored_config.enable_nus THEN [b EXCEPT !.ret = -ENOTSUP]
    ELSE bt_nus_send(b, conn, data, err)

\* the console service received data from conn
nus_received_callback(b, conn, data) ==
    Invoke(b, "nus_data_received", <<conn, data, Len(data)>>)

\* the console service completed a notification to conn
nus_sent_callback(b, conn) == Invoke(b, "nus_data_sent", <<conn>>)

\* the peer enabled or disabled the notifications of the console service
nus_send_enabled_callback(b, enabled) == Invoke(b, "nus_send_enabled", <<enabled>>)

\* mutant: the connection is tested before the initialisation
ble_disconnectConnFirst(b, conn, err) ==
    IF conn = ConnNull THEN [b EXCEPT !.ret = -EINVAL]
    ELSE IF ~b.ble_initialized THEN [b EXCEPT !.ret = -EACCES]
    ELSE Call(b, "bt_conn_disconnect", err)

ble_disconnect(b, conn, err) ==
    IF ~b.ble_initialized THEN [b EXCEPT !.ret = -EACCES]
    ELSE IF conn = ConnNull THEN [b EXCEPT !.ret = -EINVAL]
    ELSE Call(b, "bt_conn_disconnect", err)

\* mutant: the loop ends at the first request that fails
RECURSIVE DisconnectFromUntilError(_, _, _)
DisconnectFromUntilError(b, i, errs) ==
    IF i >= CONFIG_BT_MAX_CONN THEN b
    ELSE IF b.current_connections[i] = ConnNull
    THEN DisconnectFromUntilError(b, i + 1, errs)
    ELSE IF errs[i] # 0
    THEN [b EXCEPT !.called = Append(@, <<"bt_conn_disconnect", errs[i],
                                          b.current_connections[i]>>),
                   !.ret = errs[i]]
    ELSE DisconnectFromUntilError(
             [b EXCEPT !.called = Append(@, <<"bt_conn_disconnect", errs[i],
                                              b.current_connections[i]>>)],
             i + 1, errs)

\* the loop of ble_disconnect_all from slot i on; errs[i] is what
\* bt_conn_disconnect gives for slot i, b.ret is err
RECURSIVE DisconnectFrom(_, _, _)
DisconnectFrom(b, i, errs) ==
    IF i >= CONFIG_BT_MAX_CONN THEN b
    ELSE IF b.current_connections[i] = ConnNull THEN DisconnectFrom(b, i + 1, errs)
    ELSE DisconnectFrom(
             [b EXCEPT !.called = Append(@, <<"bt_conn_disconnect", errs[i],
                                              b.current_connections[i]>>),
                       !.ret = IF errs[i] # 0 THEN errs[i] ELSE @],
             i + 1, errs)

ble_disconnect_all(b, errs) ==
    IF ~b.ble_initialized THEN [b EXCEPT !.ret = -EACCES]
    ELSE DisconnectFrom([b EXCEPT !.ret = 0], 0, errs)

\* the firmware as it starts: the statics of both modules as initialised
Boot ==
    /\ fed = 0
    /\ cmd_buffer = EmptyBuffer
    /\ cmd_buffer_pos = 0
    /\ led = FALSE
    /\ restarted = FALSE
    /\ executed = <<>>
    /\ sent = <<>>
    /\ split_line = FALSE
    /\ split_crlf = FALSE
    /\ ble_initialized = FALSE
    /\ current_state = BLE_DISCONNECTED
    /\ current_connections = NoConnections
    /\ connection_count = 0
    /\ stored_config = NullConfig
    /\ event_callbacks = NullCallbacks
    /\ bt_ready_pending = FALSE
    /\ adv_on = FALSE
    /\ links = {}
    /\ last = [op |-> "boot", args |-> <<>>,
               state_before |-> BLE_DISCONNECTED, count_before |-> 0,
               connections_before |-> NoConnections, links_before |-> {},
               path |-> <<>>, called |-> <<>>, invoked |-> <<>>, ret |-> 0]
    /\ app_pc = "idle"

Init == stream \in Streams /\ Boot

\* mutant: the cursor starts at 0 in every call
EntryResetsCursor(stack) ==
    [buf |-> cmd_buffer, pos |-> 0, response |-> stack, led |-> led,
     halted |-> FALSE, executed |-> executed, sent |-> sent, n |-> 0]

\* the state of the byte loop at the entry of a call
Entry(stack) ==
    [buf |-> cmd_buffer, pos |-> cmd_buffer_pos, response |-> stack, led |-> led,
     halted |-> FALSE, executed |-> executed, sent |-> sent, n |-> 0]

\* the state a call leaves behind; a restart re-initialises the statics and
\* the indicator and ends the run
Return(st) ==
    /\ fed' = fed + st.n
    /\ cmd_buffer' = IF st.halted THEN EmptyBuffer ELSE st.buf
    /\ cmd_buffer_pos' = IF st.halted THEN 0 ELSE st.pos
    /\ led' = IF st.halted THEN FALSE ELSE st.led
    /\ restarted' = st.halted
    /\ executed' = st.executed
    /\ sent' = st.sent
    /\ split_line' = (split_line \/ (fed' < Len(stream) /\ cmd_buffer_pos' > 0))
    /\ split_crlf' = (split_crlf \/ (/\ fed' < Len(stream)
                                     /\ stream[fed'] = CR
                                     /\ stream[fed' + 1] = LF))

Receive(data) ==
    \E env \in (IF HasTerminator(data) THEN Envs ELSE {NominalEnv}),
       stack \in (IF HasTerminator(data) THEN StackContents ELSE {<<>>}) :
        Return(ProcessLoop(Entry(stack), data, 1, Len(data), env))

\* cmd_parser_process(conn, data, len) on the next len bytes of the stream.
\* Only a call that meets a terminator reads the environment and the
\* response array.
cmd_parser_process(len) ==
    /\ ~restarted
    /\ len >= 1
    /\ fed + len <= Len(stream)
    /\ Receive(SubSeq(stream, fed + 1, fed + len))
    /\ UNCHANGED stream
    /\ UNCHANGED bleVars

ChunkLens == (1..MaxChunk) \cup (IF fed = 0 THEN {Len(stream)} ELSE {})

Next == \E len \in ChunkLens : cmd_parser_process(len)

Spec == Init /\ [][Next]_vars

(***************************************************************************)
(* The connection manager as a state machine: one action per API call and  *)
(* per stack event, each the whole handler.                                *)
(***************************************************************************)
Peers == 1..CONFIG_BT_MAX_CONN

\* what the stack primitives give: success or an error
StackResults == {0, -5}

\* the disconnect reasons the stack reports: timeout, remote user
Reasons == {8, 19}

Configs == {NullConfig, Config(TRUE), Config(FALSE)}

CallbackSets ==
    {NullCallbacks,
     Callbacks({"ready", "connected", "disconnected",
                "nus_data_received", "nus_data_sent", "nus_send_enabled"}),
     Callbacks({"ready"})}

\* the payloads the application sends: a short one, and one of 300 bytes
Payloads == {<<111, 107, 10>>, [i \in 1..300 |-> 97 + (i % 26)]}

\* the module and the stack as they are, nothing done yet
Now ==
    [ble_initialized |-> ble_initialized, current_state |-> current_state,
     current_connections |-> current_connections,
     connection_count |-> connection_count, stored_config |-> stored_config,
     event_callbacks |-> event_callbacks, bt_ready_pending |-> bt_ready_pending,
     adv_on |-> adv_on, links |-> links,
     path |-> <<>>, called |-> <<>>, invoked |-> <<>>, ret |-> 0]

\* the handler op, called with args, has run as far as b
Effect(op, args, b) ==
    /\ ble_initialized' = b.ble_initialized
    /\ current_state' = b.current_state
    /\ current_connections' = b.current_connections
    /\ connection_count' = b.connection_count
    /\ stored_config' = b.stored_config
    /\ event_callbacks' = b.event_callbacks
    /\ bt_ready_pending' = b.bt_ready_pending
    /\ adv_on' = b.adv_on
    /\ links' = b.links
    /\ last' = [op |-> op, args |-> args,
                state_before |-> current_state,
                count_before |-> connection_count,
                connections_before |-> current_connections,
                links_before |-> links,
                path |-> b.path, called |-> b.called, invoked |-> b.invoked,
                ret |-> b.ret]
    /\ UNCHANGED cmdVars

\* the handler op, called with args, ran as a whole and leaves b behind
Done(op, args, b) == Effect(op, args, b) /\ UNCHANGED app_pc

Initialise ==
    \E config \in Configs, callbacks \in CallbackSets, err \in StackResults :
        Done("ble_init", <<config, callbacks>>, ble_init(Now, config, callbacks, err))

\* the stack calls the bring-up callback it was given
Ready ==
    /\ bt_ready_pending
    /\ \E err \in StackResults, nus_err \in StackResults, adv_err \in StackResults :
           Done("bt_ready_callback", <<err>>,
                bt_ready_callback([Now EXCEPT !.bt_ready_pending = FALSE],
                                  err, nus_err, adv_err))

\* a peer answers the advertising and the link is established
LinkUp ==
    /\ adv_on
    /\ Cardinality(links) < CONFIG_BT_MAX_CONN
    /\ \E conn \in Peers \ links :
           Done("connected_callback", <<conn, 0>>,
                connected_callback([Now EXCEPT !.links = @ \cup {conn}, !.adv_on = FALSE],
                                   conn, 0))

\* the stack reports a connection that failed
LinkFailed ==
    /\ adv_on
    /\ \E conn \in Peers \ links :
           Done("connected_callback", <<conn, 2>>, connected_callback(Now, conn, 2))

\* the connect event of a link that is up is delivered once more
LinkUpAgain ==
    \E conn \in links :
        Done("connected_callback", <<conn, 0>>, connected_callback(Now, conn, 0))

\* a link goes down
LinkDown ==
    \E conn \in links, reason \in Reasons, adv_err \in StackResults :
        Done("disconnected_callback", <<conn, reason>>,
             disconnected_callback([Now EXCEPT !.links = @ \ {conn}],
                                   conn, reason, adv_err))

AdvertisingStart ==
    \E err \in StackResults :
        Done("ble_advertising_start", <<>>, ble_advertising_start(Now, err))

AdvertisingStop ==
    \E err \in StackResults :
        Done("ble_advertising_stop", <<>>, ble_advertising_stop(Now, err))

NusSend ==
    \E conn \in links \cup {ConnNull}, data \in Payloads, err \in StackResults :
        Done("ble_nus_send", <<conn, data>>, ble_nus_send(Now, conn, data, err))

\* the stack reports the notification just handed to it as sent
NusSent ==
    /\ last.op = "ble_nus_send"
    /\ \E i \in DOMAIN last.called : last.called[i][1] = "bt_nus_send"
    /\ last.ret = 0
    /\ Done("nus_sent_callback", <<last.args[1]>>, nus_sent_callback(Now, last.args[1]))

\* a peer writes to the console service
NusReceived ==
    /\ stored_config.enable_nus
    /\ \E conn \in links :
           Done("nus_received_callback", <<conn, <<111, 107, 10>>>>,
                nus_received_callback(Now, conn, <<111, 107, 10>>))

\* a peer subscribes to or unsubscribes from the notifications
NusSendEnabled ==
    /\ stored_config.enable_nus
    /\ links # {}
    /\ \E enabled \in BOOLEAN :
           Done("nus_send_enabled_callback", <<enabled>>,
                nus_send_enabled_callback(Now, enabled))

Disconnect ==
    \E conn \in Peers \cup {ConnNull}, err \in StackResults :
        Done("ble_disconnect", <<conn>>, ble_disconnect(Now, conn, err))

DisconnectAll ==
    \E errs \in [Slots -> StackResults] :
        Done("ble_disconnect_all", <<>>, ble_disconnect_all(Now, errs))

NextBle ==
    \/ Initialise
    \/ Ready
    \/ LinkUp
    \/ LinkFailed
    \/ LinkUpAgain
    \/ LinkDown
    \/ AdvertisingStart
    \/ AdvertisingStop
    \/ NusSend
    \/ NusSent
    \/ NusReceived
    \/ NusSendEnabled
    \/ Disconnect
    \/ DisconnectAll

\* nothing is received over the console
InitBle == stream = <<>> /\ Boot

SpecBle == InitBle /\ [][NextBle]_vars

(***************************************************************************)
(* The connection manager with the application thread preempted.  The      *)
(* connect and disconnect callbacks run in the stack's context and run to  *)
(* their end; the application thread calls ble_advertising_start and       *)
(* ble_advertising_stop and a callback may run between any two of its      *)
(* accesses to the statics.  app_pc is where the thread is:                *)
(*   idle          in no call                                              *)
(*   start_test    ble_advertising_start, before the test of line 324      *)
(*   start_assign  the test found connection_count == 0, before line 325   *)
(*   stop_test     ble_advertising_stop, before the test of line 347       *)
(*   stop_assign   the test found connection_count == 0, before line 348   *)
(*   init_flag     ble_init, bt_enable returned 0, before line 298         *)
(* The bring-up callback runs on the stack's work queue once bt_enable has *)
(* accepted it, before or after ble_init goes on.                          *)
(***************************************************************************)
\* ble_advertising_start up to the return of bt_le_adv_start
AppStartCall ==
    /\ app_pc = "idle"
    /\ \E err \in StackResults :
           IF ~ble_initialized
           THEN /\ Effect("ble_advertising_start", <<>>, [Now EXCEPT !.ret = -EACCES])
                /\ app_pc' = "idle"
           ELSE /\ Effect("ble_advertising_start", <<>>, bt_le_adv_start(Now, err))
                /\ app_pc' = IF err # 0 THEN "idle" ELSE "start_test"

\* if (connection_count == 0)
AppStartTest ==
    /\ app_pc = "start_test"
    /\ Effect("ble_advertising_start", <<>>, Now)
    /\ app_pc' = IF connection_count = 0 THEN "start_assign" ELSE "idle"

\* current_state = BLE_ADVERTISING
AppStartAssign ==
    /\ app_pc = "start_assign"
    /\ Effect("ble_advertising_start", <<>>, Assign(Now, BLE_ADVERTISING))
    /\ app_pc' = "idle"

\* ble_advertising_stop up to the return of bt_le_adv_stop
AppStopCall ==
    /\ app_pc = "idle"
    /\ \E err \in StackResults :
           IF ~ble_initialized
           THEN /\ Effect("ble_advertising_stop", <<>>, [Now EXCEPT !.ret = -EACCES])
                /\ app_pc' = "idle"
           ELSE /\ Effect("ble_advertising_stop", <<>>, bt_le_adv_stop(Now, err))
                /\ app_pc' = IF err # 0 THEN "idle" ELSE "stop_test"

\* if (connection_count == 0)
AppStopTest ==
    /\ app_pc = "stop_test"
    /\ Effect("ble_advertising_stop", <<>>, Now)
    /\ app_pc' = IF connection_count = 0 THEN "stop_assign" ELSE "idle"

\* current_state = BLE_DISCONNECTED
AppStopAssign ==
    /\ app_pc = "stop_assign"
    /\ Effect("ble_advertising_stop", <<>>, Assign(Now, BLE_DISCONNECTED))
    /\ app_pc' = "idle"

\* ble_init up to the return of bt_enable
AppInitCall ==
    /\ app_pc = "idle"
    /\ \E config \in Configs, callbacks \in CallbackSets, err \in StackResults :
           IF ble_initialized \/ config.null \/ err # 0
           THEN /\ Effect("ble_init", <<config, callbacks>>,
                          ble_init(Now, config, callbacks, err))
                /\ app_pc' = "idle"
           ELSE /\ Effect("ble_init", <<config, callbacks>>,
                          bt_enable(Prepared(Now, config, callbacks), err))
                /\ app_pc' = "init_flag"

\* ble_initialized = true; current_state = BLE_ADVERTISING; return
AppInitFlag ==
    /\ app_pc = "init_flag"
    /\ Effect("ble_init", <<stored_config, event_callbacks>>,
              Enabled([Now EXCEPT !.ret = 0]))
    /\ app_pc' = "idle"

NextThreads ==
    \/ AppInitCall
    \/ AppInitFlag
    \/ Ready
    \/ LinkUp
    \/ LinkDown
    \/ AppStartCall
    \/ AppStartTest
    \/ AppStartAssign
    \/ AppStopCall
    \/ AppStopTest
    \/ AppStopAssign

SpecThreads == InitBle /\ [][NextThreads]_vars

(***************************************************************************)
(* What the properties below speak about.                                  *)
(***************************************************************************)
\* the lines handed to execute_command so far, in order
LinesOf(log) == [i \in 1..Len(log) |-> log[i].line]

Dispatched == LinesOf(executed)

\* the line buffer: the bytes below the cursor
LineBuffer == [i \in 1..cmd_buffer_pos |-> cmd_buffer[i - 1]]

\* the bytes received so far
Received == Take(stream, fed)

\* the stream has been received to its end, or the run is over
Complete == fed = Len(stream) \/ restarted

\* one receive call with all of data, on the firmware as it starts
BootEntry(stack) ==
    [buf |-> EmptyBuffer, pos |-> 0, response |-> stack, led |-> FALSE,
     halted |-> FALSE, executed |-> <<>>, sent |-> <<>>, n |-> 0]

OneCall(data, env, stack) == ProcessLoop(BootEntry(stack), data, 1, Len(data), env)

(***************************************************************************)
(* C1  Chunk-invariance: the lines dispatched for a byte sequence are the   *)
(* same however the sequence is split into receive calls.  The lines a     *)
(* split delivery has dispatched for the bytes it received are those one   *)
(* call with the same bytes dispatches, under every environment; a single  *)
(* call that restarts the system before its last byte (reset) stops there, *)
(* with the same lines up to that point.                                   *)
(***************************************************************************)
SameLinesAs(one) ==
    IF one.n = fed
    THEN LinesOf(one.executed) = Dispatched
    ELSE IsPrefix(LinesOf(one.executed), Dispatched)

C1_ChunkInvariance ==
    Complete =>
        \A env \in Envs, stack \in StackContents :
            SameLinesAs(OneCall(Received, env, stack))

\* a stream with two lines was received in several calls, one of which ended
\* inside a line and one between '\r' and '\n'
C1_Witness ==
    /\ fed = Len(stream)
    /\ split_line
    /\ split_crlf
    /\ Len(executed) >= 2

(***************************************************************************)
(* C2  The cursor of the line buffer never exceeds capacity-1, and the NUL  *)
(* stored at dispatch is stored inside the buffer.                         *)
(***************************************************************************)
C2_CursorBound ==
    /\ cmd_buffer_pos <= CMD_MAX_LEN - 1
    /\ \A i \in DOMAIN executed : executed[i].nul_index \in DOMAIN EmptyBuffer

\* a line that overflowed the buffer was dispatched with the cursor at its
\* highest value
C2_Witness ==
    /\ Len(executed) >= 1
    /\ executed[1].nul_index = CMD_MAX_LEN - 1
    /\ \A i \in 1..(CMD_MAX_LEN + 1) : IsPrintable(stream[i])

(***************************************************************************)
(* C3  capacity+10 printable bytes and a terminator dispatch one line, the  *)
(* first capacity-1 bytes fed; the dropped bytes appear in no line: what   *)
(* follows the terminator is dispatched as if nothing had been fed before. *)
(***************************************************************************)
\* the number of leading printable bytes of the stream
LeadingPrintable == Span(stream, {c \in 0..255 : IsPrintable(c)}, TRUE)

\* the stream starts with at least capacity+10 printable bytes, then a terminator
Overflows ==
    /\ LeadingPrintable >= CMD_MAX_LEN + 10
    /\ LeadingPrintable < Len(stream)
    /\ stream[LeadingPrintable + 1] \in {LF, CR}

C3_OverflowTruncates ==
    Overflows =>
        /\ fed >= LeadingPrintable + 1 =>
              /\ Len(executed) >= 1
              /\ executed[1].line = Take(stream, CMD_MAX_LEN - 1)
        /\ fed = LeadingPrintable + 1 => Len(executed) = 1
        /\ fed = Len(stream) =>
              \A env \in Envs :
                  LET rest == OneCall(Drop(stream, LeadingPrintable + 1), env, <<>>)
                  IN  Dispatched = <<Take(stream, CMD_MAX_LEN - 1)>> \o LinesOf(rest.executed)

\* the overflowing line and a line after it have been dispatched
C3_Witness ==
    /\ Overflows
    /\ fed = Len(stream)
    /\ Len(executed) = 2
    /\ split_line

(***************************************************************************)
(* The console's line discipline, stated on byte sequences (spec §4.5):   *)
(* a printable byte is appended while room remains and dropped otherwise,  *)
(* a backspace removes the most recently retained byte, a terminator ends  *)
(* the line, which is dispatched unless it is empty; any other byte is     *)
(* ignored.                                                                *)
(***************************************************************************)
Terminators == {LF, CR}

Backspaces == {BS, DEL}

IsIgnored(c) == ~IsPrintable(c) /\ c \notin Terminators /\ c \notin Backspaces

EditByte(line, c) ==
    IF IsPrintable(c)
    THEN IF Len(line) < CMD_MAX_LEN - 1 THEN Append(line, c) ELSE line
    ELSE IF c \in Backspaces /\ line # <<>>
    THEN SubSeq(line, 1, Len(line) - 1)
    ELSE line

\* what is retained once bytes[lo..hi] are typed after line, a line within
\* the capacity
RECURSIVE EditRange(_, _, _, _)
EditRange(line, bytes, lo, hi) ==
    IF lo > hi \/ Len(line) >= CMD_MAX_LEN THEN line
    ELSE IF lo = hi THEN EditByte(line, bytes[lo])
    ELSE LET mid == (lo + hi) \div 2
         IN  EditRange(EditRange(line, bytes, lo, mid), bytes, mid + 1, hi)

Retained(bytes) == EditRange(<<>>, bytes, 1, Len(bytes))

\* the index of the first terminator of bytes at or after index from, 0 if none
NextTerminator(bytes, from) ==
    IF \A i \in from..Len(bytes) : bytes[i] \notin Terminators
    THEN 0
    ELSE CHOOSE i \in from..Len(bytes) :
             /\ bytes[i] \in Terminators
             /\ \A j \in from..(i - 1) : bytes[j] \notin Terminators

\* the lines the bytes from index from on make up
RECURSIVE LinesFrom(_, _)
LinesFrom(bytes, from) ==
    LET t == NextTerminator(bytes, from)
        line == Retained(SubSeq(bytes, from, t - 1))
    IN  IF t = 0 THEN <<>>
        ELSE IF line = <<>> THEN LinesFrom(bytes, t + 1)
        ELSE <<line>> \o LinesFrom(bytes, t + 1)

TypedLines(bytes) == LinesFrom(bytes, 1)

\* the index of the last terminator received, 0 if none
LastTerminator ==
    IF \A i \in 1..fed : stream[i] \notin Terminators
    THEN 0
    ELSE CHOOSE i \in 1..fed :
             /\ stream[i] \in Terminators
             /\ \A j \in (i + 1)..fed : stream[j] \notin Terminators

\* the pending line: what is retained of the bytes received since the last
\* terminator
PendingLine == Retained(SubSeq(stream, LastTerminator + 1, fed))

\* a receive call of the single byte c is taking place
Receives(c) == fed' = fed + 1 /\ stream[fed'] = c

(***************************************************************************)
(* C4  The line buffer holds printable ASCII only and is a prefix of the    *)
(* pending line; a byte that is neither printable nor a terminator nor a   *)
(* backspace changes neither the buffer nor the cursor.                    *)
(***************************************************************************)
C4_PrintablePrefix ==
    /\ \A i \in 1..Len(LineBuffer) : IsPrintable(LineBuffer[i])
    /\ IsPrefix(LineBuffer, PendingLine)

C4_IgnoredByte ==
    \A c \in 0..255 :
        Receives(c) /\ IsIgnored(c) => UNCHANGED <<cmd_buffer, cmd_buffer_pos>>

DispatchesOnly(line) ==
    /\ Len(executed') = Len(executed) + 1
    /\ SubSeq(executed', 1, Len(executed)) = executed
    /\ executed'[Len(executed')].line = line

\* a receive call of the byte pair CR LF is taking place
ReceivesCrLf == fed' = fed + 2 /\ stream[fed + 1] = CR /\ stream[fed'] = LF

C5_Terminator ==
    /\ \A c \in Terminators :
           Receives(c) =>
               /\ cmd_buffer_pos > 0 => DispatchesOnly(LineBuffer)
               /\ cmd_buffer_pos = 0 => UNCHANGED <<executed, sent>>
               /\ cmd_buffer_pos' = 0
    /\ ReceivesCrLf =>
           /\ cmd_buffer_pos > 0 => DispatchesOnly(LineBuffer)
           /\ cmd_buffer_pos = 0 => UNCHANGED <<executed, sent>>
           /\ cmd_buffer_pos' = 0

C5_TerminatorDispatch == [][C5_Terminator]_vars

\* a line was dispatched by a CR that arrived at the end of one call, and
\* the LF after it has arrived in the next
C5_Witness ==
    /\ split_crlf
    /\ fed >= 2
    /\ stream[fed - 1] = CR
    /\ stream[fed] = LF
    /\ Len(executed) = 1
    /\ cmd_buffer_pos = 0

(***************************************************************************)
(* C6  A backspace byte (BS or DEL) lowers the cursor by exactly one if it  *)
(* is above 0 and does nothing if it is 0; the lines dispatched are the    *)
(* printable bytes received with every backspace having removed the most   *)
(* recently retained byte, so that "hekp\b\blp\n" dispatches "help".       *)
(***************************************************************************)
C6_BackspaceStep ==
    \A c \in Backspaces :
        Receives(c) =>
            /\ cmd_buffer_pos' = IF cmd_buffer_pos > 0 THEN cmd_buffer_pos - 1 ELSE 0
            /\ \A i \in 1..cmd_buffer_pos' : cmd_buffer'[i - 1] = cmd_buffer[i - 1]
            /\ UNCHANGED <<executed, sent>>

C6_LinesEdited ==
    /\ Dispatched = TypedLines(Received)
    /\ Received = <<104, 101, 107, 112, 8, 8, 108, 112, 10>> => Dispatched = <<<<104, 101, 108, 112>>>>

C6_Backspace == []C6_LinesEdited /\ [][C6_BackspaceStep]_vars

\* a line was dispatched that a backspace had arrived for at the empty
\* buffer, and that a BS and a DEL had each removed a byte from
C6_Witness ==
    /\ Received = <<8, 104, 101, 107, 112, 8, 127, 108, 112, 10>>
    /\ Dispatched = <<<<104, 101, 108, 112>>>>

(***************************************************************************)
(* What execute_command was given and gave, per dispatched line.           *)
(***************************************************************************)
\* the dispatches that reached the command lookup with a token
Looked == {i \in DOMAIN executed : executed[i].alloc /\ ~executed[i].cmd_name.null}

IsTableName(token) == \E k \in 1..NUM_COMMANDS : commands[k].name = token

Whitespace == {SPACE, TAB}

\* the first index from from on at which line has a whitespace byte (white)
\* or a byte that is none (~white); Len(line) + 1 if there is none
FirstFrom(line, from, white) ==
    IF \A i \in from..Len(line) : (line[i] \in Whitespace) # white
    THEN Len(line) + 1
    ELSE CHOOSE i \in from..Len(line) :
             /\ (line[i] \in Whitespace) = white
             /\ \A j \in from..(i - 1) : (line[j] \in Whitespace) # white

TokenStart(line) == FirstFrom(line, 1, FALSE)

TokenEnd(line) == FirstFrom(line, TokenStart(line), TRUE)

\* the command token of the line, and the tail after the whole whitespace
\* run that follows the token
TokenOf(line) == SubSeq(line, TokenStart(line), TokenEnd(line) - 1)

TailAfterRun(line) == SubSeq(line, FirstFrom(line, TokenEnd(line), FALSE), Len(line))

(***************************************************************************)
(* C7  Every dispatched line is split into the command token and the tail  *)
(* that starts after the whole run of spaces and tabs following the token; *)
(* "echo   a  b" gives the token "echo" and the tail "a  b".               *)
(***************************************************************************)
C7_SplitOnWhitespaceRun ==
    \A i \in Looked :
        /\ executed[i].cmd_name.s = TokenOf(executed[i].line)
        /\ executed[i].args.s = TailAfterRun(executed[i].line)
        /\ executed[i].line = <<101, 99, 104, 111, 32, 32, 32, 97, 32, 32, 98>> =>
               /\ executed[i].cmd_name = Str(<<101, 99, 104, 111>>)
               /\ executed[i].args = Str(<<97, 32, 32, 98>>)

(***************************************************************************)
(* C8  A token that equals no table name, case-sensitively, is answered    *)
(* with exactly "Unknown command: <token>\nType 'help' for available       *)
(* commands\n", untruncated for every token the line buffer can hold, and  *)
(* with an error code; the response is sent, the buffer is reset and the   *)
(* lines that follow are parsed and dispatched as a fresh line is.         *)
(***************************************************************************)
UnknownResponse(token) ==
    <<85, 110, 107, 110, 111, 119, 110, 32, 99, 111, 109, 109, 97, 110, 100, 58, 32>> \o token \o <<10, 84, 121, 112, 101, 32, 39, 104, 101, 108, 112, 39, 32, 102, 111, 114, 32, 97, 118, 97, 105, 108, 97, 98, 108, 101, 32, 99, 111, 109, 109, 97, 110, 100, 115, 10>>

Unknown == {i \in Looked : ~IsTableName(executed[i].cmd_name.s)}

\* the dispatch of the line alone, on the firmware as it starts
Alone(line, env) == OneCall(Append(line, LF), env, <<>>).executed[1]

DispatchedNormally(e) ==
    \E env \in Envs :
        /\ Alone(e.line, env).cmd_name = e.cmd_name
        /\ Alone(e.line, env).args = e.args
        /\ Alone(e.line, env).ret = e.ret
        /\ e.wrote => Alone(e.line, env).response = e.response

C8_UnknownCommand ==
    /\ \A i \in Unknown :
           /\ executed[i].response = UnknownResponse(executed[i].cmd_name.s)
           /\ ~executed[i].ub
           /\ executed[i].ret = -ENOENT
           /\ executed[i].ret < 0
           /\ executed[i].sent
           /\ sent[executed[i].sent_at] = UnknownResponse(executed[i].cmd_name.s)
           /\ ~executed[i].halted
           /\ i < Len(executed) => DispatchedNormally(executed[i + 1])
    /\ Dispatched = TypedLines(Received)
    /\ (fed >= 1 /\ stream[fed] \in Terminators) => cmd_buffer_pos = 0

\* a token that fills the line buffer was answered, and the line after it
\* dispatched
C8_Witness ==
    /\ Len(executed) = 2
    /\ 1 \in Unknown
    /\ Len(executed[1].cmd_name.s) = CMD_MAX_LEN - 1
    /\ executed[2].line = <<122, 122>>
    /\ cmd_buffer_pos = 0

(***************************************************************************)
(* C9  The response of help holds one entry, name and help text, for each  *)
(* of the 9 commands of the table.                                         *)
(***************************************************************************)
Contains(s, t) ==
    \E i \in 0..(Len(s) - Len(t)) : SubSeq(s, i + 1, i + Len(t)) = t

HelpEntry(k) == <<32, 32>> \o commands[k].name \o <<32, 45, 32>> \o commands[k].help \o <<10>>

C9_HelpListsAllCommands ==
    /\ NUM_COMMANDS = 9
    /\ \A i \in Looked :
           executed[i].cmd_name.s = <<104, 101, 108, 112>> =>
               \A k \in 1..NUM_COMMANDS : Contains(executed[i].response, HelpEntry(k))

(***************************************************************************)
(* C10  Every response the dispatcher sends for a table command or for an  *)
(* unknown command is text whose last byte is a newline.                   *)
(***************************************************************************)
C10_ResponseEndsInNewline ==
    \A i \in Looked :
        executed[i].sent =>
            /\ sent[executed[i].sent_at] # <<>>
            /\ Last(sent[executed[i].sent_at]) = LF

(***************************************************************************)
(* What a dispatch met in its environment.                                 *)
(***************************************************************************)
\* the dispatches of the table command name
DispatchesOf(name) == {i \in Looked : executed[i].cmd_name.s = name}

\* the temperature read gives a reading: the sensor branch is built, the
\* device is ready, and the driver reports no error
TempReadOk(env) ==
    /\ env.has_temp
    /\ env.temp.ready
    /\ env.temp.fetch_err >= 0
    /\ env.temp.get_err >= 0

\* the battery read gives a voltage: the ADC is built and ready and the
\* conversion reports no error
AdcReadOk(env, adc) == env.has_adc /\ adc.ready /\ adc.err >= 0

(***************************************************************************)
(* C11  In every execution of reset the acknowledgement is sent over the   *)
(* transport before the reboot primitive is called.                        *)
(***************************************************************************)
ResetAck == <<82, 101, 115, 101, 116, 116, 105, 110, 103, 32, 115, 121, 115, 116, 101, 109, 32, 105, 110, 32, 50, 32, 115, 101, 99, 111, 110, 100, 115, 46, 46, 46, 10>>

C11_AckBeforeRestart ==
    \A i \in DispatchesOf(<<114, 101, 115, 101, 116>>) :
        /\ executed[i].sent
        /\ executed[i].sent_at \in DOMAIN sent
        /\ sent[executed[i].sent_at] = ResetAck

LedArguments == {<<111, 110>>, <<111, 102, 102>>, <<116, 111, 103, 103, 108, 101>>}

LedUsageTexts ==
    {<<85, 115, 97, 103, 101, 58, 32, 108, 101, 100, 32, 60, 111, 110, 124, 111, 102, 102, 124, 116, 111, 103, 103, 108, 101, 62, 10>>, <<73, 110, 118, 97, 108, 105, 100, 32, 76, 69, 68, 32, 99, 111, 109, 109, 97, 110, 100, 46, 32, 85, 115, 101, 58, 32, 111, 110, 44, 32, 111, 102, 102, 44, 32, 111, 114, 32, 116, 111, 103, 103, 108, 101, 10>>}

C14_LedArgument ==
    \A i \in DispatchesOf(<<108, 101, 100>>) :
        IF executed[i].args.s \in LedArguments
        THEN executed[i].ret = 0
        ELSE /\ executed[i].ret = -EINVAL
             /\ executed[i].response \in LedUsageTexts
             /\ executed[i].led_after = executed[i].led_before

(***************************************************************************)
(* C15  "led on", "led off", "led toggle" dispatched in that order send    *)
(* three pairwise distinct confirmations in the same order and leave the   *)
(* indicator on: on sets it, off clears it, toggle inverts it.             *)
(***************************************************************************)
LedSequence == <<<<108, 101, 100, 32, 111, 110>>, <<108, 101, 100, 32, 111, 102, 102>>, <<108, 101, 100, 32, 116, 111, 103, 103, 108, 101>>>>

LedConfirmations == <<<<76, 69, 68, 32, 116, 117, 114, 110, 101, 100, 32, 111, 110, 10>>, <<76, 69, 68, 32, 116, 117, 114, 110, 101, 100, 32, 111, 102, 102, 10>>, <<76, 69, 68, 32, 116, 111, 103, 103, 108, 101, 100, 10>>>>

C15_LedSequence ==
    /\ (Dispatched = LedSequence /\ Looked = {1, 2, 3}) =>
           /\ sent = LedConfirmations
           /\ \A i, j \in 1..3 : i # j => sent[i] # sent[j]
           /\ led
    /\ \A i \in DispatchesOf(<<108, 101, 100>>) :
           /\ executed[i].args.s = <<111, 110>> => executed[i].led_after
           /\ executed[i].args.s = <<111, 102, 102>> => ~executed[i].led_after
           /\ executed[i].args.s = <<116, 111, 103, 103, 108, 101>> =>
                  executed[i].led_after = ~executed[i].led_before

C15_Witness ==
    /\ Dispatched = LedSequence
    /\ Looked = {1, 2, 3}
    /\ Len(sent) = 3
    /\ led

StatePath == <<last.state_before>> \o last.path

\* the changes of current_state in the last step, as <<from, to>>
StateChanges ==
    {<<StatePath[i], StatePath[i + 1]>> :
        i \in {j \in 1..(Len(StatePath) - 1) : StatePath[j] # StatePath[j + 1]}}

\* the slots of the registry that hold a reference
Occupied == {i \in Slots : current_connections[i] # ConnNull}

\* the calls of the stack primitive in the last step
CallsOf(primitive) == {i \in DOMAIN last.called : last.called[i][1] = primitive}

\* the last step was the handler op
Did(op) == last.op = op

(***************************************************************************)
(* C17  Every change of the connection state follows a defined edge.  As   *)
(* stated: Disconnected->Advertising, Advertising->Connected and           *)
(* Connected->Disconnected are the only changes.                           *)
(***************************************************************************)
C17_ThreeEdgesOnly ==
    StateChanges \subseteq {<<BLE_DISCONNECTED, BLE_ADVERTISING>>,
                            <<BLE_ADVERTISING, BLE_CONNECTED>>,
                            <<BLE_CONNECTED, BLE_DISCONNECTED>>}

(***************************************************************************)
(* C17, amended  Every change of the connection state is one of            *)
(*   Disconnected->Advertising  by init, by the bring-up callback, by the  *)
(*                              re-arm after the last peer's disconnect,   *)
(*                              or by ble_advertising_start;               *)
(*   Advertising->Connected     by a connect event;                        *)
(*   Connected->Disconnected    by the disconnect of the last peer;        *)
(*   Advertising->Disconnected  by ble_advertising_stop;                   *)
(*   Disconnected->Connected    by a connect event.                        *)
(* Sending and the disconnect requests change nothing.                     *)
(***************************************************************************)
C17_Edges ==
    \A change \in StateChanges :
        \/ /\ change = <<BLE_DISCONNECTED, BLE_ADVERTISING>>
           /\ \/ Did("ble_init") /\ last.ret = BLE_INIT_STATUS_SUCCESS
              \/ Did("bt_ready_callback")
              \/ Did("disconnected_callback") /\ Occupied = {}
              \/ Did("ble_advertising_start") /\ last.ret = 0
        \/ /\ change = <<BLE_ADVERTISING, BLE_CONNECTED>>
           /\ Did("connected_callback")
        \/ /\ change = <<BLE_CONNECTED, BLE_DISCONNECTED>>
           /\ Did("disconnected_callback")
           /\ Occupied = {}
        \/ /\ change = <<BLE_ADVERTISING, BLE_DISCONNECTED>>
           /\ Did("ble_advertising_stop")
           /\ last.ret = 0
           /\ connection_count = 0
        \/ /\ change = <<BLE_DISCONNECTED, BLE_CONNECTED>>
           /\ Did("connected_callback")

\* advertising was stopped with no peer connected
C17_Witness ==
    /\ Did("ble_advertising_stop")
    /\ StateChanges = {<<BLE_ADVERTISING, BLE_DISCONNECTED>>}
    /\ current_state = BLE_DISCONNECTED

(***************************************************************************)
(* C18  State changes are idempotent with respect to callbacks: a connect  *)
(* invokes the connected callback exactly once, a disconnect the           *)
(* disconnected(reason) callback exactly once, and a connect event         *)
(* delivered again while its peer is connected invokes no callback and     *)
(* changes neither the registry nor the connection count.                  *)
(***************************************************************************)
HasSlot(slot) == ~event_callbacks.null /\ slot \in event_callbacks.slots

C18_CallbacksOncePerChange ==
    /\ (Did("connected_callback") /\ last.args[2] = 0
            /\ last.args[1] \notin last.links_before /\ HasSlot("connected")) =>
           last.invoked = <<<<"connected", last.args[1]>>>>
    /\ (Did("disconnected_callback") /\ HasSlot("disconnected")) =>
           last.invoked = <<<<"disconnected", last.args[1], last.args[2]>>>>
    /\ (Did("connected_callback") /\ last.args[2] = 0
            /\ last.args[1] \in last.links_before
            /\ last.state_before = BLE_CONNECTED) =>
           /\ last.invoked = <<>>
           /\ current_connections = last.connections_before
           /\ connection_count = last.count_before

(***************************************************************************)
(* C19  The disconnect of the last registered peer makes the state         *)
(* Disconnected and re-arms advertising exactly once: Advertising on       *)
(* success; on failure the state stays Disconnected and nothing is tried   *)
(* again; the disconnected(reason) callback is invoked either way.  A      *)
(* disconnect that leaves a peer registered keeps the state and does not   *)
(* re-arm.  bt_le_adv_start is called at most once per step, and only by   *)
(* the bring-up callback, the last peer's disconnect and                   *)
(* ble_advertising_start.                                                  *)
(***************************************************************************)
C19_Rearm ==
    /\ Did("disconnected_callback") =>
           /\ HasSlot("disconnected") =>
                  last.invoked = <<<<"disconnected", last.args[1], last.args[2]>>>>
           /\ IF Occupied = {}
              THEN /\ last.path # <<>>
                   /\ last.path[1] = BLE_DISCONNECTED
                   /\ Cardinality(CallsOf("bt_le_adv_start")) = 1
                   /\ Len(last.called) = 1
                   /\ IF last.called[1][2] = 0
                      THEN current_state = BLE_ADVERTISING
                      ELSE current_state = BLE_DISCONNECTED
              ELSE /\ last.path = <<>>
                   /\ last.called = <<>>
                   /\ current_state = last.state_before
    /\ Cardinality(CallsOf("bt_le_adv_start")) <= 1
    /\ CallsOf("bt_le_adv_start") # {} =>
           \/ Did("bt_ready_callback")
           \/ Did("ble_advertising_start")
           \/ Did("disconnected_callback") /\ Occupied = {}

\* the last peer disconnected and the re-arm failed
C19_Witness ==
    /\ Did("disconnected_callback")
    /\ last.state_before = BLE_CONNECTED
    /\ Occupied = {}
    /\ last.called = <<<<"bt_le_adv_start", -5>>>>
    /\ current_state = BLE_DISCONNECTED
    /\ last.invoked # <<>>

(***************************************************************************)
(* C20  Every payload send hands to the notify primitive is at most the    *)
(* per-message capacity of the transport, 120 bytes, for the command       *)
(* responses as for every other caller.                                    *)
(***************************************************************************)
\* the module once ble_init has succeeded with the console service enabled
ConsoleUp == [Now EXCEPT !.ble_initialized = TRUE, !.stored_config = Config(TRUE)]

\* the payloads ble_nus_send(conn, data, len) hands to bt_nus_send
Notified(data) ==
    LET b == ble_nus_send(ConsoleUp, ConnNull, data, 0)
    IN  {b.called[i][4] : i \in {j \in DOMAIN b.called : b.called[j][1] = "bt_nus_send"}}

C20_PayloadWithinCapacity ==
    \A i \in Looked :
        executed[i].sent =>
            \A payload \in Notified(sent[executed[i].sent_at]) : Len(payload) <= 120

(***************************************************************************)
(* C21  A logical send of L bytes over the transport of capacity 120 hands *)
(* the notify primitive ceil(L/120) fragments, in order, each of at most   *)
(* 120 bytes, that concatenate to the payload.                             *)
(***************************************************************************)
\* the payloads handed to bt_nus_send in the last step, in order
Fragments ==
    LET sends == SelectSeq(last.called, LAMBDA c : c[1] = "bt_nus_send")
    IN  [k \in DOMAIN sends |-> sends[k][4]]

RECURSIVE Joined(_)
Joined(pieces) == IF pieces = <<>> THEN <<>> ELSE Head(pieces) \o Joined(Tail(pieces))

C21_OrderedFragments ==
    (Did("ble_nus_send") /\ ble_initialized /\ stored_config.enable_nus /\ last.ret = 0) =>
        /\ Len(Fragments) = (Len(last.args[2]) + 119) \div 120
        /\ \A k \in DOMAIN Fragments : Len(Fragments[k]) <= 120
        /\ Joined(Fragments) = last.args[2]

(***************************************************************************)
(* C22  ble_nus_send fails with -ENOTSUP when the console service was not  *)
(* enabled at init, and fails while the bring-up callback is still owed;   *)
(* in both cases bt_nus_send is not called.                                *)
(***************************************************************************)
C22_SendGuards ==
    (Did("ble_nus_send") /\ ble_initialized) =>
        /\ ~stored_config.enable_nus =>
               /\ last.ret = -ENOTSUP
               /\ CallsOf("bt_nus_send") = {}
        /\ (stored_config.enable_nus /\ bt_ready_pending) =>
               /\ last.ret < 0
               /\ CallsOf("bt_nus_send") = {}

(***************************************************************************)
(* C23  Every transport event is forwarded to its callback slot, once and  *)
(* with its arguments; with no callback set or the slot unset nothing is   *)
(* invoked, and the module's own update of registry, count and state is    *)
(* the same either way.                                                    *)
(***************************************************************************)
\* what the last step invoked when it forwards the event to slot with args
Forwarded(slot, args) ==
    last.invoked = IF HasSlot(slot) THEN <<<<slot>> \o args>> ELSE <<>>

C23_EventsForwarded ==
    /\ (Did("bt_ready_callback") /\ last.args[1] = 0) => Forwarded("ready", <<>>)
    /\ (Did("connected_callback") /\ last.args[2] = 0) =>
           /\ Forwarded("connected", <<last.args[1]>>)
           /\ current_state = BLE_CONNECTED
           /\ connection_count > 0
    /\ Did("disconnected_callback") =>
           /\ Forwarded("disconnected", <<last.args[1], last.args[2]>>)
           /\ connection_count = Cardinality(Occupied)
           /\ Occupied = {} => current_state # BLE_CONNECTED
    /\ Did("nus_received_callback") =>
           Forwarded("nus_data_received",
                     <<last.args[1], last.args[2], Len(last.args[2])>>)
    /\ Did("nus_sent_callback") => Forwarded("nus_data_sent", <<last.args[1]>>)
    /\ Did("nus_send_enabled_callback") =>
           Forwarded("nus_send_enabled", <<last.args[1]>>)

(***************************************************************************)
(* C24  ble_init on a module that is initialised returns                   *)
(* BLE_INIT_STATUS_ALREADY_INITIALIZED, calls nothing in the stack, and    *)
(* leaves the stored configuration, the callbacks, the registry, the count *)
(* and the state as they were.                                             *)
(***************************************************************************)
C24_Reinitialised ==
    (ble_initialized /\ last'.op = "ble_init") =>
        /\ last'.ret = BLE_INIT_STATUS_ALREADY_INITIALIZED
        /\ last'.called = <<>>
        /\ last'.path = <<>>
        /\ UNCHANGED <<ble_initialized, stored_config, event_callbacks,
                       current_connections, connection_count, current_state,
                       bt_ready_pending>>

C24_AlreadyInitialized == [][C24_Reinitialised]_vars

\* a second ble_init, with another configuration and other callbacks than
\* the stored ones, while a peer is connected
C24_Witness ==
    /\ Did("ble_init")
    /\ last.ret = BLE_INIT_STATUS_ALREADY_INITIALIZED
    /\ last.args[1] # stored_config
    /\ last.args[2] # event_callbacks
    /\ connection_count > 0
    /\ current_state = BLE_CONNECTED

(***************************************************************************)
(* C25  ble_init with no configuration fails with an error value of its    *)
(* own, distinct from the value it returns when the enabling of the stack  *)
(* fails, and changes no module state.                                     *)
(***************************************************************************)
\* what ble_init returns when bt_enable fails
TransportSetupFailed ==
    ble_init([Now EXCEPT !.ble_initialized = FALSE], Config(TRUE), NullCallbacks, -5).ret

C25_InvalidConfig ==
    (Did("ble_init") /\ last.args[1].null
        /\ last.ret # BLE_INIT_STATUS_ALREADY_INITIALIZED) =>
        /\ last.ret < 0
        /\ last.ret # TransportSetupFailed
        /\ last.called = <<>>
        /\ last.path = <<>>
        /\ ~ble_initialized
        /\ current_connections = last.connections_before
        /\ connection_count = last.count_before

(***************************************************************************)
(* C26  After any sequence of connect and disconnect events the connection *)
(* count is the number of occupied registry slots, within 0 and the        *)
(* capacity of the registry; every connected peer occupies exactly one     *)
(* slot and every peer that is not connected occupies none.                *)
(***************************************************************************)
\* the slots of the registry that hold conn
SlotsOf(conn) == {i \in Slots : current_connections[i] = conn}

C26_CountIsOccupiedSlots ==
    /\ connection_count = Cardinality(Occupied)
    /\ connection_count \in 0..CONFIG_BT_MAX_CONN
    /\ \A conn \in links : Cardinality(SlotsOf(conn)) = 1
    /\ \A conn \in Peers \ links : SlotsOf(conn) = {}

(***************************************************************************)
(* C27  Whenever nrf_get_battery_status succeeds, the percentage it        *)
(* reports lies in 0..100 and is the linear map of the voltage it reports, *)
(* for every outcome of its two ADC reads.                                 *)
(***************************************************************************)
\* 0 at 3000 mV and below, 100 at 4200 mV and above, linear in between
LinearPercentage(voltage_mv) ==
    IF voltage_mv <= 3000 THEN 0
    ELSE IF voltage_mv >= 4200 THEN 100
    ELSE ((voltage_mv - 3000) * 100) \div 1200

\* the battery status the command executed as entry i was given
BatteryStatusOf(i) == nrf_get_battery_status(executed[i].env)

C27_BatteryPercentage ==
    \A i \in DispatchesOf(<<98, 97, 116, 116, 101, 114, 121>>) \cup DispatchesOf(<<115, 116, 97, 116, 117, 115>>) :
        BatteryStatusOf(i).ret = 0 =>
            /\ BatteryStatusOf(i).percentage \in 0..100
            /\ BatteryStatusOf(i).percentage
                   = LinearPercentage(BatteryStatusOf(i).voltage_mv)

(***************************************************************************)
(* C28  ble_disconnect_all requests the disconnect of every occupied slot, *)
(* in slot order and also after a request that failed; it returns 0        *)
(* exactly when every request succeeded and otherwise the code of a failed *)
(* request; it changes neither the registry nor the count nor the state.   *)
(***************************************************************************)
\* the references in the occupied slots of the registry, in slot order
RECURSIVE Registered(_)
Registered(i) ==
    IF i >= CONFIG_BT_MAX_CONN THEN <<>>
    ELSE IF current_connections[i] = ConnNull THEN Registered(i + 1)
    ELSE <<current_connections[i]>> \o Registered(i + 1)

C28_DisconnectAll ==
    (Did("ble_disconnect_all") /\ ble_initialized) =>
        /\ Len(last.called) = Len(Registered(0))
        /\ \A k \in DOMAIN last.called :
               /\ last.called[k][1] = "bt_conn_disconnect"
               /\ last.called[k][3] = Registered(0)[k]
        /\ last.ret = 0 <=> \A k \in DOMAIN last.called : last.called[k][2] = 0
        /\ last.ret # 0 => \E k \in DOMAIN last.called : last.called[k][2] = last.ret
        /\ last.path = <<>>
        /\ current_connections = last.connections_before
        /\ connection_count = last.count_before
        /\ current_state = last.state_before
        /\ links = last.links_before

\* two peers are registered, the first request fails and the second one is
\* made and succeeds
C28_Witness ==
    /\ Did("ble_disconnect_all")
    /\ Len(last.called) = 2
    /\ last.called[1][2] # 0
    /\ last.called[2][2] = 0
    /\ last.called[1][3] # last.called[2][3]
    /\ last.ret # 0

(***************************************************************************)
(* C29  A dispatched line with no command token (spaces and tabs only)     *)
(* causes no send: neither the response of an earlier command nor what the *)
(* response array held before is sent.                                     *)
(***************************************************************************)
\* the dispatches in which strtok found no token
Tokenless == {i \in DOMAIN executed : executed[i].alloc /\ executed[i].cmd_name.null}

C29_NoCommandNoSend == \A i \in Tokenless : ~executed[i].sent

(***************************************************************************)
(* C30  Once ble_init has succeeded the state is Connected exactly when    *)
(* the connection count is above zero, also when the connect and           *)
(* disconnect callbacks run in between the steps of ble_advertising_start  *)
(* and ble_advertising_stop on the application thread.                     *)
(***************************************************************************)
C30_ConnectedIffCounted ==
    ble_initialized => (current_state = BLE_CONNECTED <=> connection_count > 0)

(***************************************************************************)
(* C31  When ble_init returns success and the bring-up callback runs       *)
(* without error, no stack primitive failing, advertising is started and   *)
(* the ready callback is invoked once, whether the callback runs after     *)
(* ble_init has returned or before it has set ble_initialized.             *)
(***************************************************************************)
\* the step recorded as l was the bring-up callback, called without error,
\* and no stack primitive it called failed
BroughtUp(l) ==
    /\ l.op = "bt_ready_callback"
    /\ l.args[1] = 0
    /\ \A k \in DOMAIN l.called : l.called[k][2] = 0

\* the step recorded as l started advertising and invoked ready, if set
StartedAndReady(l) ==
    /\ \E k \in DOMAIN l.called : l.called[k][1] = "bt_le_adv_start"
    /\ l.invoked = IF HasSlot("ready") THEN <<<<"ready">>>> ELSE <<>>

C31_BringUpStep ==
    \* the callback runs after ble_init has returned success
    /\ (ble_initialized /\ BroughtUp(last')) =>
           /\ StartedAndReady(last')
           /\ adv_on'
    \* ble_init returns success after the callback has run
    /\ (app_pc = "init_flag" /\ last'.op = "ble_init"
            /\ last'.ret = BLE_INIT_STATUS_SUCCESS /\ BroughtUp(last)) =>
           /\ StartedAndReady(last)
           /\ adv_on'

C31_BringUpOrdering == [][C31_BringUpStep]_vars

(***************************************************************************)
(* C32  Whenever the connection state is Advertising the radio is          *)
(* advertising: a start of advertising has succeeded and advertising was   *)
(* neither stopped nor ended by a connection since.                        *)
(***************************************************************************)
C32_AdvertisingIsOnAir == current_state = BLE_ADVERTISING => adv_on

(***************************************************************************)
(* C33  While the module is not initialised, before ble_init and after a   *)
(* ble_init that failed, ble_advertising_start, ble_advertising_stop,      *)
(* ble_nus_send, ble_disconnect and ble_disconnect_all return -EACCES and  *)
(* call nothing in the stack, whatever their arguments and the stored      *)
(* configuration; the state is Disconnected and the count is 0.            *)
(***************************************************************************)
Operations ==
    {"ble_advertising_start", "ble_advertising_stop", "ble_nus_send",
     "ble_disconnect", "ble_disconnect_all"}

C33_NotInitialised ==
    ~ble_initialized =>
        /\ current_state = BLE_DISCONNECTED
        /\ connection_count = 0
        /\ Occupied = {}
        /\ last.op \in Operations =>
               /\ last.ret = -EACCES
               /\ last.called = <<>>
               /\ last.path = <<>>
               /\ last.invoked = <<>>

\* after a ble_init that failed in bt_enable: ble_disconnect of no
\* connection and ble_nus_send with the console service not enabled
C33_Witness ==
    /\ ~ble_initialized
    /\ ~stored_config.null
    /\ ~stored_config.enable_nus
    /\ \/ Did("ble_disconnect") /\ last.args[1] = ConnNull
       \/ Did("ble_nus_send")
    /\ last.ret = -EACCES

====
